---- MODULE Spec2Model ----
(***************************************************************************)
(* The remote evaluation bridge of org-roam-mcp (emacs_client.py).         *)
(*                                                                         *)
(* Text is a sequence of code points, so ord() is the identity and every   *)
(* escaping pass, the shell's word splitting, the Lisp reader and the JSON *)
(* decoder work on the characters themselves.                              *)
(*                                                                         *)
(* Three specifications share the variables:                               *)
(*   SpecBuild   a client operation builds the command lines it hands to   *)
(*               _execute_command;                                         *)
(*   SpecDecode  _parse_json_response decodes a reply text;                *)
(*   SpecExec    _execute_command / eval_elisp classify a process outcome. *)
(***************************************************************************)
EXTENDS Integers, Sequences, FiniteSets, TLC

VARIABLES
    pc,        \* position of the call: "idle", "built", "reply", "done", ...
    op,        \* the client operation being called
    args,      \* its arguments, a sequence of caller values
    exists,    \* os.path.exists(self.server_file) at the moment of the call
    commands,  \* the command lines handed to _execute_command, in order
    sent,      \* what the remote side did: the value it encoded and how, or
               \* how its process ended
    response,  \* the raw reply text given to _parse_json_response
    result,    \* the outcome of the call: <<"ok", value>> or <<"raise", error>>
    timeout,   \* self.timeout, in seconds
    answer,    \* what the typed operation hands back to its caller
    server_file, \* self.server_file
    now,       \* the wall clock datetime.now() reads, in minutes
    evaluated  \* the expressions handed to eval_elisp, in order

vars == <<pc, op, args, exists, commands, sent, response, result, timeout, answer,
          server_file, now, evaluated>>

----------------------------------------------------------------------------
(* Characters                                                              *)

TAB == 9
NL == 10
CR == 13
SP == 32
DQ == 34       \* "
DOL == 36      \* $
SQ == 39       \* '
LPAR == 40
RPAR == 41
BS == 92       \* \
BT == 96       \* `
LowerN == 110  \* n
LowerT == 116  \* t

\* 'emacsclient'
EmacsclientWord == <<101, 109, 97, 99, 115, 99, 108, 105, 101, 110, 116>>
\* '--server-file='
ServerFlag == <<45, 45, 115, 101, 114, 118, 101, 114, 45, 102, 105, 108, 101, 61>>
\* '-e'
EFlag == <<45, 101>>
\* the configured self.server_file of the modelled client: '/s'
ServerFile == <<47, 115>>
\* 'my/api-search-notes'
ProcSearchNotes == <<109, 121, 47, 97, 112, 105, 45, 115, 101, 97, 114, 99, 104, 45, 110, 111, 116, 101, 115>>
\* 'my/api-contextual-search'
ProcContextualSearch == <<109, 121, 47, 97, 112, 105, 45, 99, 111, 110, 116, 101, 120, 116, 117, 97, 108, 45, 115, 101, 97, 114, 99, 104>>
\* 'my/add-daily-entry-structured'
ProcAddDaily == <<109, 121, 47, 97, 100, 100, 45, 100, 97, 105, 108, 121, 45, 101, 110, 116, 114, 121, 45, 115, 116, 114, 117, 99, 116, 117, 114, 101, 100>>
\* 'my/get-daily-note-content'
ProcGetDaily == <<109, 121, 47, 103, 101, 116, 45, 100, 97, 105, 108, 121, 45, 110, 111, 116, 101, 45, 99, 111, 110, 116, 101, 110, 116>>
\* 'org-roam-semantic-generate-embedding'
ProcGenEmbedding == <<111, 114, 103, 45, 114, 111, 97, 109, 45, 115, 101, 109, 97, 110, 116, 105, 99, 45, 103, 101, 110, 101, 114, 97, 116, 101, 45, 101, 109, 98, 101, 100, 100, 105, 110, 103>>
\* 'list'
ListWord == <<108, 105, 115, 116>>
\* 'TODO '
TodoPrefix == <<84, 79, 68, 79, 32>>
\* 'journal'
JournalWord == <<106, 111, 117, 114, 110, 97, 108>>
\* 'todo'
TodoWord == <<116, 111, 100, 111>>

----------------------------------------------------------------------------
(* Text helpers: str.replace, str.join, str(int)                           *)

\* the first index j >= i with s[j] in S, or Len(s) + 1 when there is none
NextIn(s, i, S) ==
    CHOOSE j \in i..(Len(s) + 1) :
        /\ j = Len(s) + 1 \/ s[j] \in S
        /\ \A k \in i..(j - 1) : s[k] \notin S

RECURSIVE Replace(_, _, _)
\* s.replace(c, r) for a one-character c: the text up to the next c is
\* copied, the c becomes r
Replace(s, c, r) ==
    LET j == NextIn(s, 1, {c})
    IN  IF j > Len(s) THEN s
        ELSE SubSeq(s, 1, j - 1) \o r \o Replace(SubSeq(s, j + 1, Len(s)), c, r)

RECURSIVE Join(_, _)
\* sep.join(parts)
Join(sep, parts) ==
    IF parts = <<>> THEN <<>>
    ELSE IF Len(parts) = 1 THEN parts[1]
    ELSE parts[1] \o sep \o Join(sep, Tail(parts))

RECURSIVE IntStr(_)
\* str(n) for n >= 0, as an f-string renders {limit}
IntStr(n) ==
    IF n < 10 THEN <<48 + n>> ELSE IntStr(n \div 10) \o <<48 + (n % 10)>>

Quoted(s) == <<DQ>> \o s \o <<DQ>>

----------------------------------------------------------------------------
(* Escaper                                                                 *)

EscapeForElisp_QuoteFirst(value) ==
    Replace(Replace(Replace(Replace(value,
        DQ, <<BS, DQ>>), BS, <<BS, BS>>), NL, <<BS, LowerN>>), TAB, <<BS, LowerT>>)

\* the replacements with the backslash pass last
EscapeForElisp_BackslashLast(value) ==
    Replace(Replace(Replace(Replace(value,
        DQ, <<BS, DQ>>), NL, <<BS, LowerN>>), TAB, <<BS, LowerT>>), BS, <<BS, BS>>)

\* the items quoted without escaping
BuildElispList_Unescaped(items) ==
    <<LPAR>> \o ListWord \o <<SP>>
        \o Join(<<SP>>, [i \in 1..Len(items) |-> Quoted(items[i])])
        \o <<RPAR>>

EscapeForElisp(value) ==
    Replace(Replace(Replace(Replace(value,
        BS, <<BS, BS>>), DQ, <<BS, DQ>>), NL, <<BS, LowerN>>), TAB, <<BS, LowerT>>)

\* the shell escaping pass of eval_elisp (and of add_daily_entry)
ShellEscape(expression) ==
    Replace(Replace(Replace(Replace(expression,
        BS, <<BS, BS>>), DQ, <<BS, DQ>>), BT, <<BS, BT>>), DOL, <<BS, DOL>>)

BuildElispList(items) ==
    <<LPAR>> \o ListWord \o <<SP>>
        \o Join(<<SP>>, [i \in 1..Len(items) |-> Quoted(EscapeForElisp(items[i]))])
        \o <<RPAR>>

\* the command with the flag whatever os.path.exists answered
CommandDQ_AlwaysFlag(ex, body) ==
    EmacsclientWord \o <<SP>> \o ServerFlag \o server_file \o <<SP>>
        \o EFlag \o <<SP>> \o <<DQ>> \o body \o <<DQ>>

\* emacsclient [--server-file=<server_file>] -e "<safe_expression>"
CommandDQ(ex, body) ==
    EmacsclientWord \o <<SP>>
        \o (IF ex THEN ServerFlag \o server_file \o <<SP>> ELSE <<>>)
        \o EFlag \o <<SP>> \o <<DQ>> \o body \o <<DQ>>

\* emacsclient [--server-file=<server_file>] -e '<elisp>'
CommandSQ(ex, body) ==
    EmacsclientWord \o <<SP>>
        \o (IF ex THEN ServerFlag \o server_file \o <<SP>> ELSE <<>>)
        \o EFlag \o <<SP>> \o <<SQ>> \o body \o <<SQ>>

\* the command eval_elisp hands to _execute_command
EvalElispCommand(ex, expression) == CommandDQ(ex, ShellEscape(expression))

\* (procedure arg1 arg2 ...), the arguments already rendered
CallForm(procedure, rendered) ==
    <<LPAR>> \o Join(<<SP>>, <<procedure>> \o rendered) \o <<RPAR>>

----------------------------------------------------------------------------
(* The shell that subprocess.run(shell=True) hands the command line to:    *)
(* POSIX word splitting and quote removal.  A parse is ok when the line is *)
(* one simple command with no expansion, substitution or operator.         *)

ShBad == [ok |-> FALSE, argv |-> <<>>]

\* ; | & < > ( ) end or change the simple command
ShOperators == {LPAR, RPAR, 59, 124, 38, 60, 62}

\* the characters after which a $ starts an expansion: a name, a digit,
\* a special parameter, ( or {
ShExpansionStart ==
    (97..122) \cup (65..90) \cup (48..57) \cup {95, 64, 42, 35, 63, 45, 36, 33, 40, 123}

\* the characters that are not copied to the word as they are
ShSpecial(mode) ==
    CASE mode = "sq" -> {SQ}
      [] mode = "dq" -> {DQ, BS, BT, DOL}
      [] OTHER -> {SP, TAB, NL, SQ, DQ, BS, BT, DOL} \cup ShOperators

RECURSIVE ShScan(_, _, _, _, _, _)
\* from position i in quoting mode `mode`, the current word and the words so
\* far: a run of plain characters joins the word, then the special one acts
ShScan(cmd, i, mode, word, inword, argv) ==
    LET j == NextIn(cmd, i, ShSpecial(mode))
        w == word \o SubSeq(cmd, i, j - 1)
        inw == inword \/ j > i
        c == cmd[j]
        d == IF j < Len(cmd) THEN cmd[j + 1] ELSE -1
    IN  CASE j > Len(cmd) /\ mode # "none" -> ShBad
          [] j > Len(cmd) /\ mode = "none" ->
                [ok |-> TRUE, argv |-> IF inw THEN Append(argv, w) ELSE argv]
          [] j <= Len(cmd) /\ mode = "sq" ->
                ShScan(cmd, j + 1, "none", w, TRUE, argv)
          [] j <= Len(cmd) /\ mode = "dq" ->
                (CASE c = DQ -> ShScan(cmd, j + 1, "none", w, TRUE, argv)
                   [] c = BS /\ d \in {DOL, BT, DQ, BS} ->
                        ShScan(cmd, j + 2, "dq", Append(w, d), TRUE, argv)
                   [] c = BS /\ d = NL -> ShScan(cmd, j + 2, "dq", w, TRUE, argv)
                   [] c = BT \/ (c = DOL /\ d \in ShExpansionStart) -> ShBad
                   [] OTHER -> ShScan(cmd, j + 1, "dq", Append(w, c), TRUE, argv))
          [] OTHER ->
                (CASE c \in {SP, TAB} ->
                        ShScan(cmd, j + 1, "none", <<>>, FALSE,
                               IF inw THEN Append(argv, w) ELSE argv)
                  [] c = SQ -> ShScan(cmd, j + 1, "sq", w, TRUE, argv)
                  [] c = DQ -> ShScan(cmd, j + 1, "dq", w, TRUE, argv)
                  [] c = BS /\ d = NL -> ShScan(cmd, j + 2, "none", w, inw, argv)
                  [] c = BS /\ d \notin {NL, -1} ->
                        ShScan(cmd, j + 2, "none", Append(w, d), TRUE, argv)
                  [] c \in ShOperators \cup {NL, BT}
                        \/ (c = DOL /\ d \in ShExpansionStart) -> ShBad
                  [] OTHER -> ShScan(cmd, j + 1, "none", Append(w, c), TRUE, argv))

ShParse(cmd) == ShScan(cmd, 1, "none", <<>>, FALSE, <<>>)

----------------------------------------------------------------------------
(* The Lisp reader that emacsclient -e applies to its argument.  Forms are *)
(* <<"atom", text>>, <<"str", text>>, <<"list", forms>>, <<"quote", form>> *)

ElFail == [ok |-> FALSE, val |-> <<"none", <<>>>>, pos |-> 0]

ElWhite == {SP, TAB, NL, CR}
ElDelims == ElWhite \cup {LPAR, RPAR, DQ, SQ, BT}

ElSkip(text, i) == NextIn(text, i, (0..255) \ ElWhite)

RECURSIVE ElReadString(_, _, _)
\* the string literal reader, after the opening quote: plain characters are
\* copied, a backslash escapes the next character
ElReadString(text, i, acc) ==
    LET j == NextIn(text, i, {DQ, BS})
        a == acc \o SubSeq(text, i, j - 1)
        d == IF j < Len(text) THEN text[j + 1] ELSE -1
    IN  CASE j > Len(text) -> ElFail
          [] j <= Len(text) /\ text[j] = DQ ->
                [ok |-> TRUE, val |-> <<"str", a>>, pos |-> j + 1]
          [] OTHER ->
                (CASE d = -1 -> ElFail
                  [] d = LowerN -> ElReadString(text, j + 2, Append(a, NL))
                  [] d = LowerT -> ElReadString(text, j + 2, Append(a, TAB))
                  [] d \in {NL, SP} -> ElReadString(text, j + 2, a)
                  [] OTHER -> ElReadString(text, j + 2, Append(a, d)))

RECURSIVE ElReadAtom(_, _, _)
ElReadAtom(text, i, acc) ==
    LET j == NextIn(text, i, ElDelims \cup {BS})
        a == acc \o SubSeq(text, i, j - 1)
    IN  CASE j > Len(text) \/ text[j] # BS ->
                [ok |-> TRUE, val |-> <<"atom", a>>, pos |-> j]
          [] j = Len(text) -> ElFail
          [] OTHER -> ElReadAtom(text, j + 2, Append(a, text[j + 1]))

RECURSIVE ElRead(_, _)
RECURSIVE ElReadList(_, _, _)
ElRead(text, i) ==
    LET j == ElSkip(text, i)
    IN  IF j > Len(text) THEN ElFail
        ELSE IF text[j] = LPAR THEN ElReadList(text, j + 1, <<>>)
        ELSE IF text[j] = RPAR THEN ElFail
        ELSE IF text[j] = DQ THEN ElReadString(text, j + 1, <<>>)
        ELSE IF text[j] \in {SQ, BT} THEN
            LET r == ElRead(text, j + 1)
            IN  IF r.ok THEN [r EXCEPT !.val = <<"quote", <<r.val>>>>] ELSE ElFail
        ELSE ElReadAtom(text, j, <<>>)

ElReadList(text, i, acc) ==
    LET j == ElSkip(text, i)
    IN  IF j > Len(text) THEN ElFail
        ELSE IF text[j] = RPAR THEN
            [ok |-> TRUE, val |-> <<"list", acc>>, pos |-> j + 1]
        ELSE LET r == ElRead(text, j)
             IN  IF r.ok THEN ElReadList(text, r.pos, Append(acc, r.val)) ELSE ElFail

\* the argument read as exactly one form
ElReadAll(text) ==
    LET r == ElRead(text, 1)
    IN  IF r.ok /\ ElSkip(text, r.pos) > Len(text) THEN r ELSE ElFail

----------------------------------------------------------------------------
(* Caller inputs                                                           *)

\* longest caller text of the one-text operations
MaxTextLen == 3
\* longest caller text of an operation that takes several arguments
MaxArgLen == 2
\* longest list argument
MaxItems == 2

\* backslash, quotes, newline, tab, backtick, dollar and an ordinary letter
TextChars == {BS, DQ, SQ, NL, TAB, BT, DOL, LowerN}

TextsOver(S, n) == UNION {[1..k -> S] : k \in 0..n}
TextsUpTo(n) == TextsOver(TextChars, n)
Texts == TextsUpTo(MaxTextLen)
ArgTexts == TextsUpTo(MaxArgLen)

ItemTexts == {<<LowerN>>, <<DQ>>, <<BS>>, <<SQ>>, <<NL>>, <<DOL, LowerN>>}
ItemLists == UNION {[1..k -> ItemTexts] : k \in 0..MaxItems}

Limits == {1, 10}
EntryTypes == {JournalWord, TodoWord}

NoValue == <<"none", <<>>>>

\* self.timeout = 300
DefaultTimeout == 300

----------------------------------------------------------------------------
(* Client operations, up to the command lines they hand to                 *)
(* _execute_command                                                        *)

SearchNotesExpression(query) ==
    CallForm(ProcSearchNotes, <<Quoted(EscapeForElisp(query))>>)

\* the limit written as a string literal
ContextualSearchExpression_QuotedLimit(query, limit) ==
    CallForm(ProcContextualSearch, <<Quoted(EscapeForElisp(query)), Quoted(IntStr(limit))>>)

ContextualSearchExpression(query, limit) ==
    CallForm(ProcContextualSearch, <<Quoted(EscapeForElisp(query)), IntStr(limit)>>)

\* entry_type.lower() == "todo" on the modelled entry types
FormattedTitle(title, entry_type) ==
    IF entry_type = TodoWord THEN TodoPrefix \o title ELSE title

AddDailyEntryExpression(timestamp, title, points, next_steps, tags, entry_type) ==
    CallForm(ProcAddDaily,
        << Quoted(EscapeForElisp(timestamp)),
           Quoted(EscapeForElisp(FormattedTitle(title, entry_type))),
           BuildElispList(points), BuildElispList(next_steps), BuildElispList(tags) >>)

\* the date is placed between the quotes as it is
GetDailyContentExpression(date) ==
    IF date # <<>> THEN CallForm(ProcGetDaily, <<Quoted(date)>>)
    ELSE CallForm(ProcGetDaily, <<>>)

GenerateEmbeddingElisp(file_path) ==
    CallForm(ProcGenEmbedding, <<Quoted(EscapeForElisp(file_path))>>)

\* '(let ((buf (find-buffer-visiting "'
SaveElispPrefix == <<40, 108, 101, 116, 32, 40, 40, 98, 117, 102, 32, 40, 102, 105, 110, 100, 45, 98, 117, 102, 102, 101, 114, 45, 118, 105, 115, 105, 116, 105, 110, 103, 32, 34>>
\* '"))) (when buf (with-current-buffer buf (save-buffer))))'
SaveElispSuffix == <<34, 41, 41, 41, 32, 40, 119, 104, 101, 110, 32, 98, 117, 102, 32, 40, 119, 105, 116, 104, 45, 99, 117, 114, 114, 101, 110, 116, 45, 98, 117, 102, 102, 101, 114, 32, 98, 117, 102, 32, 40, 115, 97, 118, 101, 45, 98, 117, 102, 102, 101, 114, 41, 41, 41, 41>>

SaveElisp(file_path) == SaveElispPrefix \o EscapeForElisp(file_path) \o SaveElispSuffix

SearchNotes ==
    /\ pc = "idle"
    /\ \E query \in Texts, ex \in BOOLEAN :
        /\ op' = "search_notes"
        /\ args' = <<query>>
        /\ exists' = ex
        /\ commands' = <<EvalElispCommand(ex, SearchNotesExpression(query))>>
    /\ pc' = "built"
    /\ UNCHANGED <<server_file, now, evaluated, answer, timeout, sent, response, result>>

ContextualSearch ==
    /\ pc = "idle"
    /\ \E query \in ArgTexts, limit \in Limits, ex \in BOOLEAN :
        /\ op' = "contextual_search"
        /\ args' = <<query, limit>>
        /\ exists' = ex
        /\ commands' = <<EvalElispCommand(ex, ContextualSearchExpression(query, limit))>>
    /\ pc' = "built"
    /\ UNCHANGED <<server_file, now, evaluated, answer, timeout, sent, response, result>>

\* the argument tuples of add_daily_entry: one argument ranges over its
\* texts or lists while the others keep a plain value
AddDailyInputs ==
    LET k == <<LowerN>>
    IN  {<<t, k, <<k>>, <<>>, <<>>>> : t \in ArgTexts}
            \cup {<<k, t, <<k>>, <<>>, <<>>>> : t \in ArgTexts}
            \cup {<<k, k, l, <<>>, <<>>>> : l \in ItemLists}
            \cup {<<k, k, <<k>>, l, <<>>>> : l \in ItemLists}
            \cup {<<k, k, <<k>>, <<>>, l>> : l \in ItemLists}

\* add_daily_entry escapes for the shell itself and calls _execute_command
AddDailyEntry ==
    /\ pc = "idle"
    /\ \E a \in AddDailyInputs, entry_type \in EntryTypes, ex \in BOOLEAN :
        /\ op' = "add_daily_entry"
        /\ args' = Append(a, entry_type)
        /\ exists' = ex
        /\ commands' = <<CommandDQ(ex, ShellEscape(
               AddDailyEntryExpression(a[1], a[2], a[3], a[4], a[5], entry_type)))>>
    /\ pc' = "built"
    /\ UNCHANGED <<server_file, now, evaluated, answer, timeout, sent, response, result>>

\* get_daily_content puts the expression between the double quotes unescaped
GetDailyContent ==
    /\ pc = "idle"
    /\ \E date \in Texts, ex \in BOOLEAN :
        /\ op' = "get_daily_content"
        /\ args' = <<date>>
        /\ exists' = ex
        /\ commands' = <<CommandDQ(ex, GetDailyContentExpression(date))>>
    /\ pc' = "built"
    /\ UNCHANGED <<server_file, now, evaluated, answer, timeout, sent, response, result>>

\* generate_note_embedding wraps both expressions in single quotes
GenerateNoteEmbedding ==
    /\ pc = "idle"
    /\ \E file_path \in Texts, ex \in BOOLEAN :
        /\ op' = "generate_note_embedding"
        /\ args' = <<file_path>>
        /\ exists' = ex
        /\ commands' = <<CommandSQ(ex, GenerateEmbeddingElisp(file_path)),
                         CommandSQ(ex, SaveElisp(file_path))>>
    /\ pc' = "built"
    /\ UNCHANGED <<server_file, now, evaluated, answer, timeout, sent, response, result>>

\* the call returns and the client is ready for the next one
Return ==
    /\ pc = "built"
    /\ pc' = "idle"
    /\ op' = "none"
    /\ args' = <<>>
    /\ exists' = FALSE
    /\ commands' = <<>>
    /\ UNCHANGED <<server_file, now, evaluated, answer, timeout, sent, response, result>>

InitBuild ==
    /\ server_file = ServerFile
    /\ timeout = DefaultTimeout
    /\ now = 0
    /\ evaluated = <<>>
    /\ answer = NoValue
    /\ pc = "idle"
    /\ op = "none"
    /\ args = <<>>
    /\ exists = FALSE
    /\ commands = <<>>
    /\ sent = NoValue
    /\ response = <<>>
    /\ result = NoValue

NextBuild ==
    \/ SearchNotes
    \/ ContextualSearch
    \/ AddDailyEntry
    \/ GetDailyContent
    \/ GenerateNoteEmbedding
    \/ Return

SpecBuild == InitBuild /\ [][NextBuild]_vars

----------------------------------------------------------------------------
(* What a command line is meant to be: one emacsclient invocation whose    *)
(* -e argument reads as the call form of the operation, the caller texts   *)
(* as string literals.                                                     *)

AtomForm(s) == <<"atom", s>>
StrForm(s) == <<"str", s>>
ListForm(fs) == <<"list", fs>>
StrListForm(items) ==
    ListForm(<<AtomForm(ListWord)>> \o [i \in 1..Len(items) |-> StrForm(items[i])])

\* 'let'
LetWord == <<108, 101, 116>>
\* 'buf'
BufWord == <<98, 117, 102>>
\* 'when'
WhenWord == <<119, 104, 101, 110>>
\* 'with-current-buffer'
WithCurrentBufferWord == <<119, 105, 116, 104, 45, 99, 117, 114, 114, 101, 110, 116, 45, 98, 117, 102, 102, 101, 114>>
\* 'save-buffer'
SaveBufferWord == <<115, 97, 118, 101, 45, 98, 117, 102, 102, 101, 114>>
\* 'find-buffer-visiting'
ProcFindBuffer == <<102, 105, 110, 100, 45, 98, 117, 102, 102, 101, 114, 45, 118, 105, 115, 105, 116, 105, 110, 103>>

SaveForm(path) ==
    ListForm(<<
        AtomForm(LetWord),
        ListForm(<<ListForm(<<AtomForm(BufWord),
            ListForm(<<AtomForm(ProcFindBuffer), StrForm(path)>>)>>)>>),
        ListForm(<<AtomForm(WhenWord), AtomForm(BufWord),
            ListForm(<<AtomForm(WithCurrentBufferWord), AtomForm(BufWord),
                ListForm(<<AtomForm(SaveBufferWord)>>)>>)>>)>>)

\* the forms the commands of operation o with arguments a are meant to carry
IntendedForms(o, a) ==
    CASE o = "search_notes" ->
            <<ListForm(<<AtomForm(ProcSearchNotes), StrForm(a[1])>>)>>
      [] o = "contextual_search" ->
            <<ListForm(<<AtomForm(ProcContextualSearch), StrForm(a[1]),
                         AtomForm(IntStr(a[2]))>>)>>
      [] o = "add_daily_entry" ->
            <<ListForm(<<AtomForm(ProcAddDaily), StrForm(a[1]),
                         StrForm(FormattedTitle(a[2], a[6])),
                         StrListForm(a[3]), StrListForm(a[4]), StrListForm(a[5])>>)>>
      [] o = "get_daily_content" ->
            IF a[1] = <<>> THEN <<ListForm(<<AtomForm(ProcGetDaily)>>)>>
            ELSE <<ListForm(<<AtomForm(ProcGetDaily), StrForm(a[1])>>)>>
      [] o = "generate_note_embedding" ->
            <<ListForm(<<AtomForm(ProcGenEmbedding), StrForm(a[1])>>), SaveForm(a[1])>>

\* cmd splits into emacsclient [--server-file=<server_file>] -e <one argument>
\* and that argument reads as exactly the form
CarriesForm(cmd, ex, form) ==
    LET p == ShParse(cmd)
        n == IF ex THEN 4 ELSE 3
    IN  /\ p.ok
        /\ Len(p.argv) = n
        /\ p.argv[1] = EmacsclientWord
        /\ ex => p.argv[2] = ServerFlag \o server_file
        /\ p.argv[n - 1] = EFlag
        /\ ElReadAll(p.argv[n]).ok
        /\ ElReadAll(p.argv[n]).val = form

EvalElispBased == {"search_notes", "contextual_search"}

----------------------------------------------------------------------------
(* Claims                                                                  *)

\* C1 (as claimed): every command line an operation hands to
\* _execute_command, whatever the caller text, is one emacsclient invocation
\* with one -e argument that reads as the operation's call form with the
\* caller texts as string literals equal to the originals.
C1_EveryCommandKeepsBoundary ==
    pc = "built" =>
        \A i \in 1..Len(commands) :
            CarriesForm(commands[i], exists, IntendedForms(op, args)[i])

\* C2: for a text of backslashes, quotes, newlines, tabs, backticks, dollars
\* and ordinary characters, _escape_for_elisp, the wrapping quotes and the
\* shell escaping pass of eval_elisp round-trip: the shell's double-quote
\* rules and then the string-literal reader give back the original text.
C2_EscapeRoundTrip ==
    (pc = "built" /\ op \in EvalElispBased) =>
        CarriesForm(commands[1], exists, IntendedForms(op, args)[1])

\* C2 witness: a query holding a backslash, a double quote and a dollar sign
\* has been built into a command that reads back as that query.
C2_Witness ==
    /\ pc = "built"
    /\ op = "search_notes"
    /\ args = << <<BS, DQ, DOL>> >>
    /\ ElReadAll(ShParse(commands[1]).argv[Len(ShParse(commands[1]).argv)]).val
          = ListForm(<<AtomForm(ProcSearchNotes), StrForm(<<BS, DQ, DOL>>)>>)

----------------------------------------------------------------------------
(* json.loads: Python's strict JSON decoder, with the error positions of   *)
(* the C scanner.  Values are <<"str", text>>, <<"num", token>>,           *)
(* <<"true", <<>>>>, <<"false", <<>>>>, <<"null", <<>>>>,                  *)
(* <<"arr", values>> and <<"obj", pairs>>, a pair being <<key, value>> in   *)
(* insertion order.  A failure is the JSONDecodeError with its position.   *)

Chars == 0..255
Digits == 48..57
HexDigits == Digits \cup (97..102) \cup (65..70)
JsonWs == {SP, TAB, NL, CR}
Controls == 0..31

LBRACKET == 91
RBRACKET == 93
LBRACE == 123
RBRACE == 125
COMMA == 44
COLON == 58
SLASH == 47
LowerU == 117

\* 'null', 'true', 'false'
NullWord == <<110, 117, 108, 108>>
TrueWord == <<116, 114, 117, 101>>
FalseWord == <<102, 97, 108, 115, 101>>

StrVal(s) == <<"str", s>>
NumVal(tok) == <<"num", tok>>
ArrVal(vs) == <<"arr", vs>>
ObjVal(ps) == <<"obj", ps>>
NullVal == <<"null", <<>>>>
TrueVal == <<"true", <<>>>>
FalseVal == <<"false", <<>>>>

\* a successful scan: the value and the index after it
JOk(v, e) ==
    [ok |-> TRUE, val |-> v, end |-> e, exc |-> "", pos |-> -1, msg |-> "", doc |-> <<>>]
\* JSONDecodeError(msg, doc, pos); i is the index of the offending character
JErr(m, i) ==
    [ok |-> FALSE, val |-> NoValue, end |-> 0, exc |-> "JSONDecodeError",
     pos |-> i - 1, msg |-> m, doc |-> <<>>]

\* JSONDecodeError.lineno: doc.count('\n', 0, pos) + 1
ErrLine(doc, pos) ==
    Cardinality({k \in 1..pos : k <= Len(doc) /\ doc[k] = NL}) + 1
\* JSONDecodeError.colno: pos - doc.rindex('\n', 0, pos), or pos + 1 on line 1
ErrCol(doc, pos) ==
    LET nls == {k \in 1..pos : k <= Len(doc) /\ doc[k] = NL}
    IN  IF nls = {} THEN pos + 1
        ELSE pos + 1 - (CHOOSE k \in nls : \A m \in nls : m <= k)
\* any other exception
Raised(kind) ==
    [ok |-> FALSE, val |-> NoValue, end |-> 0, exc |-> kind, pos |-> -1, msg |-> "",
     doc |-> <<>>]

JSkip(s, i) == NextIn(s, i, Chars \ JsonWs)

HexVal(c) == IF c \in Digits THEN c - 48 ELSE IF c >= 97 THEN c - 87 ELSE c - 55

\* the character a one-letter escape stands for
SimpleEscape(d) ==
    CASE d = DQ -> DQ
      [] d = BS -> BS
      [] d = SLASH -> SLASH
      [] d = 98 -> 8
      [] d = 102 -> 12
      [] d = LowerN -> NL
      [] d = 114 -> CR
      [] d = LowerT -> TAB

SimpleEscapes == {DQ, BS, SLASH, 98, 102, LowerN, 114, LowerT}

\* the character at index k, or -1 past the end
At(s, k) == IF k >= 1 /\ k <= Len(s) THEN s[k] ELSE -1

RECURSIVE ScanString(_, _, _, _)

\* the escape at the backslash at j; a is the content so far
ScanEscape(s, j, begin, a, d) ==
    CASE d = -1 -> JErr("Unterminated string starting at", begin)
      [] d \in SimpleEscapes -> ScanString(s, j + 2, begin, Append(a, SimpleEscape(d)))
      [] d = LowerU ->
            IF j + 5 <= Len(s) /\ \A k \in (j + 2)..(j + 5) : s[k] \in HexDigits
            THEN ScanString(s, j + 6, begin,
                    Append(a, HexVal(s[j + 2]) * 4096 + HexVal(s[j + 3]) * 256
                                + HexVal(s[j + 4]) * 16 + HexVal(s[j + 5])))
            ELSE JErr("Invalid \\uXXXX escape", j + 1)
      [] OTHER -> JErr("Invalid \\escape", j)

\* the terminator at j of the run of plain characters that began at i
ScanStringAt(s, i, j, begin, acc) ==
    CASE j > Len(s) -> JErr("Unterminated string starting at", begin)
      [] At(s, j) = DQ -> JOk(StrVal(acc \o SubSeq(s, i, j - 1)), j + 1)
      [] At(s, j) \in Controls -> JErr("Invalid control character at", j)
      [] OTHER -> ScanEscape(s, j, begin, acc \o SubSeq(s, i, j - 1), At(s, j + 1))

\* scanstring(s, end): i is the index after the opening quote at `begin`
ScanString(s, i, begin, acc) ==
    ScanStringAt(s, i, NextIn(s, i, {DQ, BS} \cup Controls), begin, acc)

AfterDigits(s, k) == NextIn(s, k, Chars \ Digits)
\* ([eE][-+]?\d+)? with m the index after the optional sign
NumberExp(s, k2, m) ==
    IF At(s, k2) \in {101, 69} /\ At(s, m) \in Digits THEN AfterDigits(s, m) ELSE k2
\* (\.\d+)?
NumberFrac(s, k1) ==
    IF At(s, k1) = 46 /\ At(s, k1 + 1) \in Digits THEN AfterDigits(s, k1 + 1) ELSE k1
NumberTail(s, k2) == NumberExp(s, k2, IF At(s, k2 + 1) \in {43, 45} THEN k2 + 2 ELSE k2 + 1)
\* (0|[1-9]\d*)
NumberInt(s, i, k0) ==
    IF At(s, k0) \in Digits
    THEN NumberTail(s, NumberFrac(s, IF At(s, k0) = 48 THEN k0 + 1 ELSE AfterDigits(s, k0)))
    ELSE i
\* NUMBER_RE: -?(0|[1-9]\d*)(\.\d+)?([eE][-+]?\d+)?, the index after the match
\* at i, or i when there is none
NumberEnd(s, i) == NumberInt(s, i, IF At(s, i) = 45 THEN i + 1 ELSE i)

NumberAt(s, i, e) ==
    IF e > i THEN JOk(NumVal(SubSeq(s, i, e - 1)), e) ELSE JErr("Expecting value", i)

StartsWith(s, i, w) == i + Len(w) - 1 <= Len(s) /\ SubSeq(s, i, i + Len(w) - 1) = w

\* dict[key] = value: a repeated key keeps its place and takes the new value
ObjPut(pairs, key, value) ==
    IF \E n \in 1..Len(pairs) : pairs[n][1] = key
    THEN [n \in 1..Len(pairs) |-> IF pairs[n][1] = key THEN <<key, value>> ELSE pairs[n]]
    ELSE Append(pairs, <<key, value>>)

RECURSIVE ScanOnce(_, _)
RECURSIVE ParseArray(_, _, _, _)
RECURSIVE ParseObject(_, _, _, _)

\* scan_once(s, idx); running off the text or meeting no value is
\* "Expecting value" at that index
ScanOnce(s, i) ==
    CASE i > Len(s) -> JErr("Expecting value", i)
      [] At(s, i) = DQ -> ScanString(s, i + 1, i, <<>>)
      [] At(s, i) = LBRACE -> ParseObject(s, i + 1, <<>>, TRUE)
      [] At(s, i) = LBRACKET -> ParseArray(s, i + 1, <<>>, TRUE)
      [] StartsWith(s, i, NullWord) -> JOk(NullVal, i + 4)
      [] StartsWith(s, i, TrueWord) -> JOk(TrueVal, i + 4)
      [] StartsWith(s, i, FalseWord) -> JOk(FalseVal, i + 5)
      [] OTHER -> NumberAt(s, i, NumberEnd(s, i))

\* after an element: "]" ends the array, "," continues it
ArrayNext(s, acc, k) ==
    CASE At(s, k) = RBRACKET -> JOk(ArrVal(acc), k + 1)
      [] At(s, k) = COMMA -> ParseArray(s, k + 1, acc, FALSE)
      [] OTHER -> JErr("Expecting ',' delimiter", k)

ArrayItem(s, acc, r) ==
    IF r.ok THEN ArrayNext(s, Append(acc, r.val), JSkip(s, r.end)) ELSE r

ArrayAt(s, j, acc, first) ==
    IF first /\ At(s, j) = RBRACKET THEN JOk(ArrVal(<<>>), j + 1)
    ELSE ArrayItem(s, acc, ScanOnce(s, j))

\* JSONArray after "[" (first) or after a ","
ParseArray(s, i, acc, first) == ArrayAt(s, JSkip(s, i), acc, first)

\* after a member: "}" ends the object, "," continues it
ObjectNext(s, acc, e) ==
    CASE At(s, e) = RBRACE -> JOk(ObjVal(acc), e + 1)
      [] At(s, e) = COMMA -> ParseObject(s, e + 1, acc, FALSE)
      [] OTHER -> JErr("Expecting ',' delimiter", e)

ObjectValue(s, acc, key, v) ==
    IF v.ok THEN ObjectNext(s, ObjPut(acc, key, v.val), JSkip(s, v.end)) ELSE v

ObjectColon(s, acc, key, c) ==
    IF At(s, c) = COLON THEN ObjectValue(s, acc, key, ScanOnce(s, JSkip(s, c + 1)))
    ELSE JErr("Expecting ':' delimiter", c)

ObjectKey(s, acc, kr) ==
    IF kr.ok THEN ObjectColon(s, acc, kr.val[2], JSkip(s, kr.end)) ELSE kr

ObjectAt(s, j, acc, first) ==
    CASE first /\ At(s, j) = RBRACE -> JOk(ObjVal(<<>>), j + 1)
      [] ~(first /\ At(s, j) = RBRACE) /\ At(s, j) # DQ ->
            JErr("Expecting property name enclosed in double quotes", j)
      [] OTHER -> ObjectKey(s, acc, ScanString(s, j + 1, j, <<>>))

\* JSONObject after "{" (first) or after a ","
ParseObject(s, i, acc, first) == ObjectAt(s, JSkip(s, i), acc, first)

\* nothing but whitespace may follow the value
LoadsEnd(s, r, e) == IF e <= Len(s) THEN JErr("Extra data", e) ELSE r
LoadsValue(s, r) == IF r.ok THEN LoadsEnd(s, r, JSkip(s, r.end)) ELSE r

\* the JSONDecodeError keeps the document it was raised on
LoadsDoc(s, r) == IF r.ok THEN r ELSE [r EXCEPT !.doc = s]

\* json.loads(s)
JsonLoads(s) == LoadsDoc(s, LoadsValue(s, ScanOnce(s, JSkip(s, 1))))

----------------------------------------------------------------------------
(* Response decoder                                                        *)

DEL == 127
C1First == 128
C1Last == 159

HexDigit(n) == IF n < 10 THEN 48 + n ELSE 87 + n

\* f'\\u{code:04x}'
UEscape(code) ==
    <<BS, LowerU, HexDigit((code \div 4096) % 16), HexDigit((code \div 256) % 16),
      HexDigit((code \div 16) % 16), HexDigit(code % 16)>>

\* a control character kept behind a backslash instead of being replaced
PreCleanChar_KeepsControl(c) ==
    IF c \in Controls \cup {DEL} THEN <<BS, c>> ELSE <<c>>

\* what _pre_clean_response appends for a character inside a string
PreCleanChar(c) ==
    CASE c = TAB -> <<BS, LowerT>>
      [] c = NL -> <<BS, LowerN>>
      [] c = CR -> <<BS, 114>>
      [] c \in Controls \ {TAB, NL, CR} -> UEscape(c)
      [] c = DEL -> UEscape(DEL)
      [] OTHER -> <<c>>

\* the quote at j toggles in_string unless the character before it is a
\* backslash
QuoteToggles(resp, j) == j = 1 \/ resp[j - 1] # BS

RECURSIVE PreCleanScan(_, _, _, _)
\* the loop of _pre_clean_response from index i: characters that are neither
\* a quote nor, inside a string, a control character are copied as they are
PreCleanScan(resp, i, in_string, acc) ==
    LET j == NextIn(resp, i,
                    IF in_string THEN {DQ, DEL} \cup Controls ELSE {DQ})
        a == acc \o SubSeq(resp, i, j - 1)
    IN  CASE j > Len(resp) -> a
          [] j <= Len(resp) /\ resp[j] = DQ /\ QuoteToggles(resp, j) ->
                PreCleanScan(resp, j + 1, ~in_string, Append(a, DQ))
          [] OTHER ->
                PreCleanScan(resp, j + 1, in_string,
                    a \o (IF in_string THEN PreCleanChar(resp[j]) ELSE <<resp[j]>>))

PreCleanResponse(resp) == PreCleanScan(resp, 1, FALSE, <<>>)

\* what _parse_json_with_control_char_fix appends for a character
SweepChar(c) ==
    CASE c = TAB -> <<BS, LowerT>>
      [] c = NL -> <<BS, LowerN>>
      [] c = CR -> <<BS, 114>>
      [] c \in Controls \ {TAB, NL, CR} -> UEscape(c)
      [] c = DEL -> UEscape(DEL)
      [] c \in C1First..C1Last -> UEscape(c)
      [] OTHER -> <<c>>

RECURSIVE SweepScan(_, _, _)
\* the loop of _parse_json_with_control_char_fix from index i: an escape
\* sequence is copied whole, a control character escaped, the rest copied
SweepScan(json_str, i, acc) ==
    LET j == NextIn(json_str, i, {BS, DEL} \cup Controls \cup (C1First..C1Last))
        a == acc \o SubSeq(json_str, i, j - 1)
        d == IF j < Len(json_str) THEN json_str[j + 1] ELSE -1
    IN  CASE j > Len(json_str) -> a
          [] j <= Len(json_str) /\ json_str[j] = BS /\ d \in SimpleEscapes ->
                SweepScan(json_str, j + 2, Append(Append(a, BS), d))
          [] j <= Len(json_str) /\ json_str[j] = BS /\ d = LowerU
                /\ j + 5 <= Len(json_str) ->
                SweepScan(json_str, j + 6, a \o SubSeq(json_str, j, j + 5))
          [] OTHER -> SweepScan(json_str, j + 1, a \o SweepChar(json_str[j]))

\* _parse_json_with_control_char_fix(json_str): the sweep, then json.loads
ParseJsonWithControlCharFix(json_str) == JsonLoads(SweepScan(json_str, 1, <<>>))

\* key.isdigit() on the modelled characters
IsDigit(key) == key # <<>> /\ \A n \in 1..Len(key) : key[n] \in Digits

RECURSIVE IntOf(_)
\* int(key) of a digit string
IntOf(key) ==
    IF key = <<>> THEN 0
    ELSE 10 * IntOf(SubSeq(key, 1, Len(key) - 1)) + (key[Len(key)] - 48)

\* sorted(xs)
Sorted(xs) ==
    LET Rank(n) == Cardinality({m \in 1..Len(xs) :
                        xs[m] < xs[n] \/ (xs[m] = xs[n] /\ m < n)}) + 1
    IN  [r \in 1..Len(xs) |-> xs[CHOOSE n \in 1..Len(xs) : Rank(n) = r]]

HasKey(pairs, key) == \E n \in 1..Len(pairs) : pairs[n][1] = key
ObjGet(pairs, key) == pairs[CHOOSE n \in 1..Len(pairs) : pairs[n][1] = key][2]

RECURSIVE Concat(_)
\* ''.join(parts)
Concat(parts) == IF parts = <<>> THEN <<>> ELSE Head(parts) \o Concat(Tail(parts))

\* lines 298-303: the inner text that json.loads rejected goes to the sweep
UnwrapRetry(inner, q) == IF q.ok THEN q ELSE ParseJsonWithControlCharFix(inner)
UnwrapCleaned(inner) == UnwrapRetry(inner, JsonLoads(inner))
\* lines 296-303: a string result is decoded once more
UnwrapString(text) == UnwrapCleaned(PreCleanResponse(text))


\* line 306: a dict whose keys are all digit strings
IsCharArray(v) == v[1] = "obj" /\ \A n \in 1..Len(v[2]) : IsDigit(v[2][n][1])

\* line 308: parsed[str(i)] for each i, then ''.join of them
JoinEntries(pairs, keys) ==
    IF \E n \in 1..Len(keys) : ~HasKey(pairs, keys[n]) THEN Raised("KeyError")
    ELSE IF \E n \in 1..Len(keys) : ObjGet(pairs, keys[n])[1] # "str"
         THEN Raised("TypeError")
    ELSE JsonLoads(Concat([n \in 1..Len(keys) |-> ObjGet(pairs, keys[n])[2]]))

\* str(i) for i in sorted(int(k) for k in parsed.keys())
SortedKeys(pairs) ==
    LET order == Sorted([n \in 1..Len(pairs) |-> IntOf(pairs[n][1])])
    IN  [n \in 1..Len(order) |-> IntStr(order[n])]

\* lines 305-309: the values joined in numeric key order, decoded again
Reconstruct(u) ==
    IF u.ok /\ IsCharArray(u.val) THEN JoinEntries(u.val[2], SortedKeys(u.val[2])) ELSE u

\* the try block without lines 296-303
Unwrap_Skip(p) == p
\* lines 296-303 apply to a string result only
Unwrap(p) == IF p.ok /\ p.val[1] = "str" THEN UnwrapString(p.val[2]) ELSE p

\* the try block, lines 289-311, on the pre-cleaned text
TryBlock(cleaned) == Reconstruct(Unwrap(JsonLoads(cleaned)))

\* lines 330-335: a string from the sweep is decoded once more
FallbackRetry(f, g) == IF g.ok THEN g ELSE ParseJsonWithControlCharFix(f.val[2])
FallbackUnwrap(f) ==
    IF f.ok /\ f.val[1] = "str" THEN FallbackRetry(f, JsonLoads(f.val[2])) ELSE f
\* the handler's own try block, lines 317-337
Fallback(cleaned) == FallbackUnwrap(ParseJsonWithControlCharFix(cleaned))

\* the words of a JSONDecodeError, as text
MsgText(m) ==
    CASE m = "Expecting value" ->
            <<69, 120, 112, 101, 99, 116, 105, 110, 103, 32, 118, 97, 108, 117, 101>>
      [] m = "Extra data" ->
            <<69, 120, 116, 114, 97, 32, 100, 97, 116, 97>>
      [] m = "Unterminated string starting at" ->
            <<85, 110, 116, 101, 114, 109, 105, 110, 97, 116, 101, 100, 32, 115, 116, 114, 105, 110, 103, 32, 115, 116, 97, 114, 116, 105, 110, 103, 32, 97, 116>>
      [] m = "Invalid control character at" ->
            <<73, 110, 118, 97, 108, 105, 100, 32, 99, 111, 110, 116, 114, 111, 108, 32, 99, 104, 97, 114, 97, 99, 116, 101, 114, 32, 97, 116>>
      [] m = "Expecting ',' delimiter" ->
            <<69, 120, 112, 101, 99, 116, 105, 110, 103, 32, 39, 44, 39, 32, 100, 101, 108, 105, 109, 105, 116, 101, 114>>
      [] m = "Expecting ':' delimiter" ->
            <<69, 120, 112, 101, 99, 116, 105, 110, 103, 32, 39, 58, 39, 32, 100, 101, 108, 105, 109, 105, 116, 101, 114>>
      [] m = "Expecting property name enclosed in double quotes" ->
            <<69, 120, 112, 101, 99, 116, 105, 110, 103, 32, 112, 114, 111, 112, 101, 114, 116, 121, 32, 110, 97, 109, 101, 32, 101, 110, 99, 108, 111, 115, 101, 100, 32, 105, 110, 32, 100, 111, 117, 98, 108, 101, 32, 113, 117, 111, 116, 101, 115>>
      [] m = "Invalid \\escape" ->
            <<73, 110, 118, 97, 108, 105, 100, 32, 92, 101, 115, 99, 97, 112, 101>>
      [] m = "Invalid \\uXXXX escape" ->
            <<73, 110, 118, 97, 108, 105, 100, 32, 92, 117, 88, 88, 88, 88, 32, 101, 115, 99, 97, 112, 101>>

\* ': line '
LineWord == <<58, 32, 108, 105, 110, 101, 32>>
\* ' column '
ColumnWord == <<32, 99, 111, 108, 117, 109, 110, 32>>
\* ' (char '
CharWord == <<32, 40, 99, 104, 97, 114, 32>>
\* str(e) of a JSONDecodeError raised on doc: msg: line L column C (char P)
ErrStr(e, doc) ==
    MsgText(e.msg) \o LineWord \o IntStr(ErrLine(doc, e.pos)) \o ColumnWord
    \o IntStr(ErrCol(doc, e.pos)) \o CharWord \o IntStr(e.pos) \o <<RPAR>>

\* 'Failed to parse JSON response: '
FailedToParse == <<70, 97, 105, 108, 101, 100, 32, 116, 111, 32, 112, 97, 114, 115, 101, 32, 74, 83, 79, 78, 32, 114, 101, 115, 112, 111, 110, 115, 101, 58, 32>>
\* '. Raw response (first 1000 chars): '
RawResponseLabel == <<46, 32, 82, 97, 119, 32, 114, 101, 115, 112, 111, 110, 115, 101, 32, 40, 102, 105, 114, 115, 116, 32, 49, 48, 48, 48, 32, 99, 104, 97, 114, 115, 41, 58, 32>>

\* response[:1000]
SnippetLen == 1000
Snippet(text) == SubSeq(text, 1, IF Len(text) < SnippetLen THEN Len(text) ELSE SnippetLen)

Returned(v) == <<"ok", v>>
\* EmacsClientError(f"Failed to parse JSON response: {e}. Raw response
\* (first 1000 chars): {response[:1000]}")
DecodeError(e, text) ==
    <<"raise", [kind |-> "EmacsClientError", prefix |-> "Failed to parse JSON response",
                detail |-> e.msg, pos |-> e.pos, text |-> Snippet(text),
                message |-> FailedToParse \o ErrStr(e, e.doc) \o RawResponseLabel
                            \o Snippet(text)]>>
\* an exception that is not caught
Escaped(kind) ==
    <<"raise", [kind |-> kind, prefix |-> "", detail |-> "", pos |-> -1, text |-> <<>>,
                message |-> <<>>]>>

\* lines 338-343: the first error is reported when the fallback fails too
Handled(cleaned, e, f) == IF f.ok THEN Returned(f.val) ELSE DecodeError(e, cleaned)

\* only json.JSONDecodeError enters the handler of line 313
Outcome(cleaned, t) ==
    CASE t.ok -> Returned(t.val)
      [] ~t.ok /\ t.exc # "JSONDecodeError" -> Escaped(t.exc)
      [] OTHER -> Handled(cleaned, t, Fallback(cleaned))

DecodeCleaned(cleaned) == Outcome(cleaned, TryBlock(cleaned))

\* _parse_json_response(response)
ParseJsonResponseOf(raw) == DecodeCleaned(PreCleanResponse(raw))

\* ---------------------------------------------------------------------
\* SpecDecode: the replies the remote side can print, and their decoding
\* ---------------------------------------------------------------------

MaxStrLen == 2
MaxRawLen == 3
MaxCharArrayLen == 3
LongLen == SnippetLen + 1

LowerA == 97
Zero == 48
One == 49
SOH == 1
LowerR == 114

\* characters of the string values the remote side encodes
StrChars == {LowerA, Zero, BS, DQ, NL, TAB, CR, SOH, DEL, C1First}
Strs == TextsOver(StrChars, MaxStrLen)
Atoms == {StrVal(s) : s \in Strs} \cup {NumVal(<<Zero>>), TrueVal, NullVal}
SmallAtoms ==
    {StrVal(<<>>), StrVal(<<LowerA>>), StrVal(<<Zero>>), StrVal(<<BS>>), StrVal(<<NL>>),
     NumVal(<<Zero>>), NullVal}
Keys == {<<LowerA>>, <<Zero>>, <<One>>, <<Zero, Zero>>, <<>>, <<BS>>}
PairKeys == {<<LowerA>>, <<Zero>>, <<One>>}
PairAtoms == {StrVal(<<LowerA>>), StrVal(<<Zero>>), NumVal(<<Zero>>)}
Structures ==
    {ArrVal(<<>>), ObjVal(<<>>)}
    \cup {ArrVal(<<x>>) : x \in Atoms}
    \cup {ArrVal(<<x, y>>) : x \in SmallAtoms, y \in SmallAtoms}
    \cup {ObjVal(<< <<k, x>> >>) : k \in Keys, x \in SmallAtoms}
    \cup {ObjVal(<< <<(<<LowerA>>), x>> >>) : x \in Atoms}
    \cup {ObjVal(<< <<k[1], x>>, <<k[2], y>> >>) :
            k \in {kk \in PairKeys \X PairKeys : kk[1] # kk[2]},
            x \in PairAtoms, y \in PairAtoms}
    \cup {ArrVal(<<ObjVal(<< <<(<<LowerA>>), x>> >>)>>) : x \in SmallAtoms}
    \cup {ObjVal(<< <<(<<LowerA>>), ArrVal(<<x>>)>> >>) : x \in SmallAtoms}
Values == Atoms \cup Structures

\* the characters the decoder calls control characters
AllControls == Controls \cup {DEL} \cup C1First..C1Last

\* how one character of a string value is written. "strict": as a JSON encoder
\* must; "raw": a control character as itself; "full": every character of
\* AllControls escaped
EncodeChar(c, mode) ==
    CASE c = DQ -> <<BS, DQ>>
      [] c = BS -> <<BS, BS>>
      [] c \in Controls /\ mode = "raw" -> <<c>>
      [] c = NL -> <<BS, LowerN>>
      [] c = TAB -> <<BS, LowerT>>
      [] c = CR -> <<BS, LowerR>>
      [] c \in Controls -> UEscape(c)
      [] c \in AllControls /\ mode = "full" -> UEscape(c)
      [] OTHER -> <<c>>

EncodeString(s, mode) ==
    <<DQ>> \o Concat([n \in 1..Len(s) |-> EncodeChar(s[n], mode)]) \o <<DQ>>

RECURSIVE Encode(_, _, _)
\* the JSON text of a value, with the whitespace ws between tokens
Encode(v, ws, mode) ==
    CASE v[1] = "str" -> EncodeString(v[2], mode)
      [] v[1] = "num" -> v[2]
      [] v[1] = "true" -> TrueWord
      [] v[1] = "false" -> FalseWord
      [] v[1] = "null" -> NullWord
      [] v[1] = "arr" ->
            <<LBRACKET>> \o ws
            \o Join(<<COMMA>> \o ws,
                    [n \in 1..Len(v[2]) |-> Encode(v[2][n], ws, mode) \o ws])
            \o <<RBRACKET>>
      [] v[1] = "obj" ->
            <<LBRACE>> \o ws
            \o Join(<<COMMA>> \o ws,
                    [n \in 1..Len(v[2]) |->
                        EncodeString(v[2][n][1], mode) \o <<COLON>> \o ws
                        \o Encode(v[2][n][2], ws, mode) \o ws])
            \o <<RBRACE>>

RECURSIVE CharsOf(_)
\* the characters of the strings and keys of a value
CharsOf(v) ==
    CASE v[1] = "str" -> {v[2][n] : n \in 1..Len(v[2])}
      [] v[1] = "arr" -> UNION {CharsOf(v[2][n]) : n \in 1..Len(v[2])}
      [] v[1] = "obj" ->
            UNION {CharsOf(v[2][n][2]) \cup {v[2][n][1][k] : k \in 1..Len(v[2][n][1])} :
                   n \in 1..Len(v[2])}
      [] OTHER -> {}

Layouts == {<<>>, <<SP>>, <<NL>>}
Modes == {"strict", "raw"}

\* the text {"0": s[1], "1": s[2], ...} with its entries in the given order
CharArray(s, order) ==
    <<LBRACE>>
    \o Join(<<COMMA>>,
            [n \in 1..Len(s) |->
                EncodeString(IntStr(order[n] - 1), "strict") \o <<COLON>>
                \o EncodeString(<<s[order[n]]>>, "strict")])
    \o <<RBRACE>>

CharArrayChars == {LowerA, Zero, DQ, BS, LBRACKET, RBRACKET, NL}
\* "OK", and a text long enough to have an entry "10"
OkText == <<79, 75>>
ElevenText == <<LBRACKET, Zero, COMMA, Zero, COMMA, Zero, COMMA, Zero, COMMA, Zero, RBRACKET>>
CharArrayTexts ==
    (TextsOver(CharArrayChars, MaxCharArrayLen) \ {<<>>}) \cup {OkText, ElevenText}
Ascending(n) == [k \in 1..n |-> k]
Descending(n) == [k \in 1..n |-> n + 1 - k]

RawChars == {DQ, BS, Zero, LowerA, LBRACKET, RBRACKET, LBRACE, RBRACE, COLON, NL}
RawTexts == TextsOver(RawChars, MaxRawLen)
LongTexts ==
    {[n \in 1..LongLen |-> LowerA],
     <<DQ>> \o [n \in 1..LongLen |-> LowerA],
     <<LBRACKET>> \o [n \in 1..LongLen |-> SP] \o <<LowerA>>}

\* the remote side prints the JSON text of a value
ReplyJson ==
    /\ pc = "idle"
    /\ \E v \in Values, ws \in Layouts :
        /\ sent' = <<"json", v, ws>>
        /\ response' = Encode(v, ws, "strict")
    /\ pc' = "reply"
    /\ UNCHANGED <<server_file, now, evaluated, answer, timeout, op, args, exists, commands, result>>

\* the same, with the control characters of string values written raw
ReplyRawControl ==
    /\ pc = "idle"
    /\ \E v \in Values, ws \in Layouts :
        /\ \E c \in Controls : c \in CharsOf(v)
        /\ sent' = <<"rawcontrol", v, ws>>
        /\ response' = Encode(v, ws, "raw")
    /\ pc' = "reply"
    /\ UNCHANGED <<server_file, now, evaluated, answer, timeout, op, args, exists, commands, result>>

\* the JSON text of a value, printed as a string literal
ReplyDouble ==
    /\ pc = "idle"
    /\ \E v \in Structures, inner \in Modes, outer \in Modes :
        /\ sent' = <<"double", v, Encode(v, <<>>, inner)>>
        /\ response' = EncodeString(Encode(v, <<>>, inner), outer)
    /\ pc' = "reply"
    /\ UNCHANGED <<server_file, now, evaluated, answer, timeout, op, args, exists, commands, result>>

\* a text printed one character per numbered entry
ReplyCharArray ==
    /\ pc = "idle"
    /\ \E s \in CharArrayTexts :
        \E order \in {Ascending(Len(s)), Descending(Len(s))} :
            /\ sent' = <<"chararray", StrVal(s), order>>
            /\ response' = CharArray(s, order)
    /\ pc' = "reply"
    /\ UNCHANGED <<server_file, now, evaluated, answer, timeout, op, args, exists, commands, result>>

\* anything else on stdout
ReplyText ==
    /\ pc = "idle"
    /\ \E text \in RawTexts \cup LongTexts :
        /\ sent' = <<"text", StrVal(text), <<>>>>
        /\ response' = text
    /\ pc' = "reply"
    /\ UNCHANGED <<server_file, now, evaluated, answer, timeout, op, args, exists, commands, result>>

ParseJsonResponse ==
    /\ pc = "reply"
    /\ result' = ParseJsonResponseOf(response)
    /\ pc' = "done"
    /\ UNCHANGED <<server_file, now, evaluated, answer, timeout, op, args, exists, commands, sent, response>>

InitDecode ==
    /\ server_file = ServerFile
    /\ timeout = DefaultTimeout
    /\ now = 0
    /\ evaluated = <<>>
    /\ answer = NoValue
    /\ pc = "idle"
    /\ op = "none"
    /\ args = <<>>
    /\ exists = FALSE
    /\ commands = <<>>
    /\ sent = NoValue
    /\ response = <<>>
    /\ result = NoValue

NextDecode ==
    \/ ReplyJson
    \/ ReplyRawControl
    \/ ReplyDouble
    \/ ReplyCharArray
    \/ ReplyText
    \/ ParseJsonResponse

SpecDecode == InitDecode /\ [][NextDecode]_vars


HasNonDigitKey(v) == v[1] = "obj" /\ \E n \in 1..Len(v[2]) : ~IsDigit(v[2][n][1])

\* C3: every well-formed JSON text whose top-level value is an array, or a
\* mapping with at least one non-digit key, whatever whitespace separates its
\* tokens and whatever valid escapes its strings hold, decodes to exactly the
\* value a strict parse of that text gives.
C3_ValidJsonDecodesToItself ==
    (/\ pc = "done"
     /\ sent[1] = "json"
     /\ sent[2][1] = "arr" \/ HasNonDigitKey(sent[2]))
        => result = Returned(JsonLoads(response).val)

\* a mapping that the decoder takes for a character array
DigitKeyed(v) == v[1] = "obj" /\ v[2] # <<>> /\ ~HasNonDigitKey(v)

Kind(r) == IF r[1] = "ok" THEN r ELSE <<"raise", r[2].kind>>

\* C5: the character-array mapping of a text s, its entries in any textual
\* order, decodes as the JSON string literal of s does: to the same value, or
\* to the same failure.
C5_CharArrayDecodesLikeLiteral ==
    (pc = "done" /\ sent[1] = "chararray")
        => Kind(result) = Kind(ParseJsonResponseOf(EncodeString(sent[2][2], "strict")))

\* C6: a text that is valid JSON but for raw control characters inside its
\* string values decodes to the value with those characters kept as data, the
\* pre-clean having replaced each of them inside a string by its escape.
C6_RawControlsPreserved ==
    (/\ pc = "done"
     /\ sent[1] = "rawcontrol"
     /\ sent[2][1] = "arr" \/ HasNonDigitKey(sent[2]))
        => /\ result = Returned(sent[2])
           /\ PreCleanResponse(response) = Encode(sent[2], sent[3], "full")

\* C9: when every stage fails the error is an EmacsClientError that says
\* "Failed to parse JSON", carries the position of the parse error, and quotes
\* the first 1000 characters of the raw reply and no more.
C9_ExhaustionMessage ==
    (pc = "done" /\ ~TryBlock(PreCleanResponse(response)).ok
                 /\ ~Fallback(PreCleanResponse(response)).ok)
        => /\ result[1] = "raise"
           /\ result[2].kind = "EmacsClientError"
           /\ result[2].prefix = "Failed to parse JSON response"
           /\ result[2].pos >= 0
           /\ result[2].text = Snippet(response)

\* C10: whatever the reply, the decoder returns a value or raises
\* EmacsClientError; no other exception escapes.
C10_OnlyDecodeErrors ==
    pc = "done" => (result[1] = "ok" \/ result[2].kind = "EmacsClientError")


\* ---------------------------------------------------------------------
\* SpecExec: how _execute_command and eval_elisp treat the ways the
\* emacsclient process can end
\* ---------------------------------------------------------------------

\* 'emacsclient failed with code '
FailedWithCode == <<101, 109, 97, 99, 115, 99, 108, 105, 101, 110, 116, 32, 102, 97, 105, 108, 101, 100, 32, 119, 105, 116, 104, 32, 99, 111, 100, 101, 32>>
\* ': '
ColonSpace == <<58, 32>>
\* 'emacsclient timed out after '
TimedOutAfter == <<101, 109, 97, 99, 115, 99, 108, 105, 101, 110, 116, 32, 116, 105, 109, 101, 100, 32, 111, 117, 116, 32, 97, 102, 116, 101, 114, 32>>
\* ' seconds'
SecondsWord == <<32, 115, 101, 99, 111, 110, 100, 115>>
\* 'Failed to execute emacsclient: '
FailedToExecute == <<70, 97, 105, 108, 101, 100, 32, 116, 111, 32, 101, 120, 101, 99, 117, 116, 101, 32, 101, 109, 97, 99, 115, 99, 108, 105, 101, 110, 116, 58, 32>>

\* str(n)
Str(n) == IF n < 0 THEN <<45>> \o IntStr(0 - n) ELSE IntStr(n)

\* the characters str.strip() removes
Whitespace == {9, 10, 11, 12, 13, 28, 29, 30, 31, 32, 133, 160}
\* s.strip()
Strip(s) ==
    LET keep == {k \in 1..Len(s) : s[k] \notin Whitespace}
    IN  IF keep = {} THEN <<>>
        ELSE SubSeq(s, CHOOSE k \in keep : \A m \in keep : k <= m,
                       CHOOSE k \in keep : \A m \in keep : m <= k)

EmacsClientError(message) ==
    <<"raise", [kind |-> "EmacsClientError", message |-> message]>>

\* how a process ended, as subprocess.run reports it
Ended(how, returncode, stdout, stderr, waited) ==
    <<how, [returncode |-> returncode, stdout |-> stdout, stderr |-> stderr,
            timeout |-> waited]>>

\* line 152: the timeout subprocess.run is given
RunTimeout(configured) == configured

\* line 160 as it would read without the test
ReturnCodeFails_Never(returncode) == FALSE
\* line 160: result.returncode != 0
ReturnCodeFails(returncode) == returncode # 0

\* lines 172-175: any exception of the try block but TimeoutExpired, the
\* EmacsClientError of line 163 included
FailedToExecuteError(text) == EmacsClientError(FailedToExecute \o text)

\* lines 160-166
ExitOutcome(p) ==
    IF ReturnCodeFails(p.returncode)
    THEN FailedToExecuteError(FailedWithCode \o Str(p.returncode) \o ColonSpace \o p.stderr)
    ELSE Returned(StrVal(Strip(p.stdout)))

\* the handler of line 168 as it would be if it handed on what was captured
TimeoutOutcome_Partial(p, configured) == Returned(StrVal(Strip(p.stdout)))
\* lines 168-171
TimeoutOutcome(p, configured) ==
    EmacsClientError(TimedOutAfter \o Str(configured) \o SecondsWord)

\* _execute_command(command), given how the process ended
ExecuteCommandOutcome(ended, configured) ==
    CASE ended[1] = "exit" -> ExitOutcome(ended[2])
      [] ended[1] = "timeout" -> TimeoutOutcome(ended[2], configured)
      [] ended[1] = "oserror" -> FailedToExecuteError(ended[2].stderr)

\* '(f)'
ExecExpressions == {<<40, 102, 41>>, <<40, 103, 32, 34, 36, 34, 41>>}
\* the reply texts a process can print
Stdouts ==
    {<<>>,
     <<123, 34, 97, 34, 58, 34, 48, 34, 125, 10>>,   \* '{"a":"0"}' and a newline
     <<110, 105, 108, 10>>,   \* 'nil' and a newline
     <<32, 91, 49>>,   \* ' [1'
     <<118, 97, 110, 105, 108, 108, 97>>,   \* 'vanilla'
     <<123, 34, 48, 34, 58, 48, 125>>}   \* '{"0":0}'
\* 'boom', with and without a newline, and 'Wrong type argument: stringp, nil'
Stderrs ==
    {<<>>, <<98, 111, 111, 109>>, <<98, 111, 111, 109, 10>>,
     <<87, 114, 111, 110, 103, 32, 116, 121, 112, 101, 32, 97, 114, 103, 117, 109, 101, 110, 116, 58, 32, 115, 116, 114, 105, 110, 103, 112, 44, 32, 110, 105, 108>>}
ReturnCodes == {0, 1, 2, 0 - 9}
\* '[Errno 12] Cannot allocate memory'
LaunchErrors == {<<91, 69, 114, 114, 110, 111, 32, 49, 50, 93, 32, 67, 97, 110, 110, 111, 116, 32, 97, 108, 108, 111, 99, 97, 116, 101, 32, 109, 101, 109, 111, 114, 121>>}

\* eval_elisp(expression): the command is built and the process started
EvalElisp ==
    /\ pc = "idle"
    /\ \E expression \in ExecExpressions, e \in BOOLEAN :
        /\ args' = <<expression>>
        /\ exists' = e
        /\ commands' = <<EvalElispCommand(e, expression)>>
    /\ op' = "eval_elisp"
    /\ pc' = "running"
    /\ UNCHANGED <<server_file, now, evaluated, answer, timeout, sent, response, result>>

\* an operation that hands its own command line to _execute_command
ExecuteDirect ==
    /\ pc = "idle"
    /\ \E expression \in ExecExpressions :
        /\ args' = <<expression>>
        /\ commands' = <<CommandDQ(FALSE, ShellEscape(expression))>>
    /\ exists' = FALSE
    /\ op' = "_execute_command"
    /\ pc' = "running"
    /\ UNCHANGED <<server_file, now, evaluated, answer, timeout, sent, response, result>>

\* the process ends by itself within the time it was given
ProcessExits ==
    /\ pc = "running"
    /\ \E returncode \in ReturnCodes, stdout \in Stdouts, stderr \in Stderrs :
        sent' = Ended("exit", returncode, stdout, stderr, RunTimeout(timeout))
    /\ pc' = "ran"
    /\ UNCHANGED <<server_file, now, evaluated, answer, timeout, op, args, exists, commands, response, result>>

\* the time runs out: the process is killed, what it had printed is captured
ProcessTimesOut ==
    /\ pc = "running"
    /\ \E stdout \in Stdouts, stderr \in Stderrs :
        sent' = Ended("timeout", 0 - 9, stdout, stderr, RunTimeout(timeout))
    /\ pc' = "ran"
    /\ UNCHANGED <<server_file, now, evaluated, answer, timeout, op, args, exists, commands, response, result>>

\* subprocess.run raises before any process runs
ProcessFailsToStart ==
    /\ pc = "running"
    /\ \E text \in LaunchErrors :
        sent' = Ended("oserror", 0, <<>>, text, RunTimeout(timeout))
    /\ pc' = "ran"
    /\ UNCHANGED <<server_file, now, evaluated, answer, timeout, op, args, exists, commands, response, result>>

\* the operations that make their remote call through eval_elisp
ViaEvalElisp == {"eval_elisp", "sync_database"}

\* _execute_command after subprocess.run; eval_elisp hands what it returns
\* to _parse_json_response
ExecuteCommand ==
    /\ pc = "ran"
    /\ IF ExecuteCommandOutcome(sent, timeout)[1] = "ok" /\ op \in ViaEvalElisp
       THEN /\ response' = ExecuteCommandOutcome(sent, timeout)[2][2]
            /\ pc' = "reply"
            /\ UNCHANGED result
       ELSE /\ result' = ExecuteCommandOutcome(sent, timeout)
            /\ pc' = "done"
            /\ UNCHANGED response
    /\ UNCHANGED <<server_file, now, evaluated, answer, timeout, op, args, exists, commands, sent>>

\* "(org-roam-db-sync 'force)" and '(org-roam-db-sync nil)'
SyncDatabaseExpression(force) ==
    IF force THEN <<40, 111, 114, 103, 45, 114, 111, 97, 109, 45, 100, 98, 45, 115, 121, 110, 99, 32, 39, 102, 111, 114, 99, 101, 41>>
    ELSE <<40, 111, 114, 103, 45, 114, 111, 97, 109, 45, 100, 98, 45, 115, 121, 110, 99, 32, 110, 105, 108, 41>>

\* 'nil'
NilWord == <<110, 105, 108>>
\* 'Database synced successfully'
SyncedMessage == <<68, 97, 116, 97, 98, 97, 115, 101, 32, 115, 121, 110, 99, 101, 100, 32, 115, 117, 99, 99, 101, 115, 115, 102, 117, 108, 108, 121>>

\* str.lower() on the modelled characters
LowerChar(c) ==
    IF c \in 65..90 \/ (c \in 192..222 /\ c # 215) THEN c + 32 ELSE c
Lower(text) == [k \in 1..Len(text) |-> LowerChar(text[k])]

\* sub occurs in text
Contains(text, sub) ==
    \E i \in 1..(Len(text) - Len(sub) + 1) : SubSeq(text, i, i + Len(sub) - 1) = sub

\* lines 753-760: what sync_database makes of eval_elisp's outcome
SyncDatabaseResult(outcome) ==
    CASE outcome[1] = "ok" -> Returned([success |-> TRUE, message |-> SyncedMessage])
      [] outcome[1] = "raise" /\ outcome[2].kind # "EmacsClientError" -> outcome
      [] OTHER ->
            IF Contains(Lower(outcome[2].message), NilWord)
            THEN Returned([success |-> TRUE, message |-> SyncedMessage])
            ELSE Returned([success |-> FALSE, error |-> outcome[2].message])

\* sync_database(force): the call of eval_elisp
SyncDatabase ==
    /\ pc = "idle"
    /\ \E force \in BOOLEAN, e \in BOOLEAN :
        /\ args' = <<force>>
        /\ exists' = e
        /\ commands' = <<EvalElispCommand(e, SyncDatabaseExpression(force))>>
    /\ op' = "sync_database"
    /\ pc' = "running"
    /\ UNCHANGED <<server_file, now, evaluated, answer, timeout, sent, response, result>>

\* sync_database after eval_elisp has returned or raised
SyncDatabaseReturns ==
    /\ pc = "done"
    /\ op = "sync_database"
    /\ answer = NoValue
    /\ answer' = SyncDatabaseResult(result)
    /\ UNCHANGED <<server_file, now, evaluated, pc, timeout, op, args, exists, commands, sent, response, result>>

InitExec ==
    /\ server_file = ServerFile
    /\ timeout = DefaultTimeout
    /\ now = 0
    /\ evaluated = <<>>
    /\ answer = NoValue
    /\ pc = "idle"
    /\ op = "none"
    /\ args = <<>>
    /\ exists = FALSE
    /\ commands = <<>>
    /\ sent = NoValue
    /\ response = <<>>
    /\ result = NoValue

NextExec ==
    \/ EvalElisp
    \/ ExecuteDirect
    \/ ProcessExits
    \/ ProcessTimesOut
    \/ ProcessFailsToStart
    \/ ExecuteCommand
    \/ ParseJsonResponse
    \/ SyncDatabase
    \/ SyncDatabaseReturns

SpecExec == InitExec /\ [][NextExec]_vars


\* 'emacsclient failed'
EmacsclientFailedWords == <<101, 109, 97, 99, 115, 99, 108, 105, 101, 110, 116, 32, 102, 97, 105, 108, 101, 100>>
\* 'timed out'
TimedOutWords == <<116, 105, 109, 101, 100, 32, 111, 117, 116>>

\* C7: after a nonzero exit the call has failed with an EmacsClientError whose
\* message holds 'emacsclient failed' and the stderr text as it was captured,
\* and nothing of the process's stdout went to the decoder or the caller.
C7_NonzeroExitFails ==
    (sent[1] = "exit" /\ sent[2].returncode # 0 /\ pc # "ran")
        => /\ pc = "done"
           /\ result[1] = "raise"
           /\ result[2].kind = "EmacsClientError"
           /\ Contains(result[2].message, EmacsclientFailedWords)
           /\ Contains(result[2].message, sent[2].stderr)
           /\ response = <<>>

\* exit code 1 with stderr 'boom' and a reply on stdout, under eval_elisp
C7_Witness ==
    /\ pc = "done"
    /\ op = "eval_elisp"
    /\ sent[1] = "exit"
    /\ sent[2].returncode = 1
    /\ sent[2].stderr = <<98, 111, 111, 109>>
    /\ sent[2].stdout # <<>>
    /\ Contains(result[2].message, <<98, 111, 111, 109>>)

\* C8: after a timeout the call has failed with an EmacsClientError whose
\* message holds 'timed out' and the configured timeout, nothing the process
\* had printed went to the decoder or the caller, and the process was given
\* the timeout configured on the client.
C8_TimeoutFails ==
    /\ (sent[1] = "timeout" /\ pc # "ran")
        => /\ pc = "done"
           /\ result[1] = "raise"
           /\ result[2].kind = "EmacsClientError"
           /\ Contains(result[2].message, TimedOutWords)
           /\ Contains(result[2].message, Str(timeout))
           /\ response = <<>>
    /\ sent[1] \in {"exit", "timeout", "oserror"} => sent[2].timeout = timeout

\* a process that had printed a reply before the time ran out
C8_Witness ==
    /\ pc = "done"
    /\ sent[1] = "timeout"
    /\ sent[2].stdout # <<>>
    /\ sent[2].timeout = DefaultTimeout
    /\ result[1] = "raise"

\* the process printed the no-value token and exited with status 0
NilReply == sent[1] = "exit" /\ sent[2].returncode = 0 /\ Strip(sent[2].stdout) = NilWord

\* C11: sync_database answers success True only when eval_elisp returned or
\* the reply was the token nil; after every other failure it answers success
\* False with the error text.
C11_SyncSuccessOnlyForNil ==
    (op = "sync_database" /\ answer # NoValue)
        => /\ (answer[1] = "ok" /\ answer[2].success) => (result[1] = "ok" \/ NilReply)
           /\ (result[1] = "raise" /\ ~NilReply)
                => /\ answer[1] = "ok"
                   /\ ~answer[2].success
                   /\ answer[2].error = result[2].message

----------------------------------------------------------------------------
(* The expression builders: the helpers called on their own and the typed  *)
(* operations up to the expression they hand to eval_elisp and the value   *)
(* they hand back.  eval_elisp is the call boundary here: what it returns  *)
(* or raises is chosen by the environment.                                 *)

\* the wall clock is followed over this many minutes
MaxNow == 1

\* 'None'
NoneWord == <<78, 111, 110, 101>>
MINUS == 45

\* str(value) for a value that is not a str: an int or None
StrOf(value) ==
    CASE value[1] = "text" -> value[2]
      [] value[1] = "int" ->
            IF value[2] < 0 THEN <<MINUS>> \o IntStr(0 - value[2]) ELSE IntStr(value[2])
      [] OTHER -> NoneWord

\* _escape_for_elisp on a caller value: the value is made a str first
EscapeValue(value) == EscapeForElisp(StrOf(value))

TextValue(t) == <<"text", t>>
IntValue(n) == <<"int", n>>

EscapeInputs ==
    {TextValue(t) : t \in Texts} \cup {IntValue(n) : n \in {0, 7, 0 - 3}} \cup {NoValue}

\* _escape_for_elisp called on its own
EscapeForElispCall ==
    /\ pc = "idle"
    /\ \E value \in EscapeInputs :
        /\ op' = "_escape_for_elisp"
        /\ args' = <<value>>
        /\ answer' = Returned(EscapeValue(value))
    /\ pc' = "done"
    /\ UNCHANGED <<server_file, now, evaluated, timeout, exists, commands, sent, response, result>>

\* _build_elisp_list called on its own
BuildElispListCall ==
    /\ pc = "idle"
    /\ \E items \in ItemLists :
        /\ op' = "_build_elisp_list"
        /\ args' = <<items>>
        /\ answer' = Returned(BuildElispList(items))
    /\ pc' = "done"
    /\ UNCHANGED <<server_file, now, evaluated, timeout, exists, commands, sent, response, result>>

----------------------------------------------------------------------------
(* Typed operations with optional arguments.  A caller value is            *)
(* <<"text", t>>, <<"list", items>> or None (<<"none", <<>>>>).            *)

\* 'my/api-create-person'
ProcCreatePerson == <<109, 121, 47, 97, 112, 105, 45, 99, 114, 101, 97, 116, 101, 45, 112, 101, 114, 115, 111, 110>>
\* 'my/api-create-project'
ProcCreateProject == <<109, 121, 47, 97, 112, 105, 45, 99, 114, 101, 97, 116, 101, 45, 112, 114, 111, 106, 101, 99, 116>>
\* 'my/api-create-idea'
ProcCreateIdea == <<109, 121, 47, 97, 112, 105, 45, 99, 114, 101, 97, 116, 101, 45, 105, 100, 101, 97>>
\* 'my/api-create-admin'
ProcCreateAdmin == <<109, 121, 47, 97, 112, 105, 45, 99, 114, 101, 97, 116, 101, 45, 97, 100, 109, 105, 110>>
\* 'my/api-add-inbox-entry'
ProcAddInboxEntry == <<109, 121, 47, 97, 112, 105, 45, 97, 100, 100, 45, 105, 110, 98, 111, 120, 45, 101, 110, 116, 114, 121>>
\* 'my/api-read-note'
ProcReadNote == <<109, 121, 47, 97, 112, 105, 45, 114, 101, 97, 100, 45, 110, 111, 116, 101>>

ListValue(items) == <<"list", items>>

\* the truth value Python gives a caller value in an if: None, '' and []
\* are false
Truthy(value) == value[1] # "none" /\ value[2] # <<>>

QuotedText(value) == Quoted(EscapeForElisp(value[2]))

\* the parameter of an optional text: the literal, or nil
OptionalText(value) == IF Truthy(value) THEN QuotedText(value) ELSE NilWord

\* the parameter of an optional list: the list literal, or nil
OptionalList(value) == IF Truthy(value) THEN BuildElispList(value[2]) ELSE NilWord

CreatePersonExpression(name, context, follow_ups, notes) ==
    CallForm(ProcCreatePerson,
        <<QuotedText(name), OptionalText(context), OptionalList(follow_ups), OptionalText(notes)>>)

CreateProjectExpression(title, status, next_action, notes) ==
    CallForm(ProcCreateProject,
        <<QuotedText(title), OptionalText(status), OptionalText(next_action), OptionalText(notes)>>)

CreateIdeaExpression(title, one_liner, elaboration) ==
    CallForm(ProcCreateIdea,
        <<QuotedText(title), QuotedText(one_liner), OptionalText(elaboration)>>)

CreateAdminExpression(title, due_date, notes) ==
    CallForm(ProcCreateAdmin,
        <<QuotedText(title), OptionalText(due_date), OptionalText(notes)>>)

\* the linked note is passed only when both its id and its title are given
AddInboxEntryExpression(command, original_text, linked_note_id, linked_note_title) ==
    IF Truthy(linked_note_id) /\ Truthy(linked_note_title)
    THEN CallForm(ProcAddInboxEntry,
            <<QuotedText(command), QuotedText(original_text),
              QuotedText(linked_note_id), QuotedText(linked_note_title)>>)
    ELSE CallForm(ProcAddInboxEntry, <<QuotedText(command), QuotedText(original_text)>>)

ReadNoteExpression(identifier, section) ==
    IF Truthy(section)
    THEN CallForm(ProcReadNote, <<QuotedText(identifier), QuotedText(section)>>)
    ELSE CallForm(ProcReadNote, <<QuotedText(identifier)>>)

\* caller values of the typed operations
RequiredTexts == {TextValue(<<LowerN>>), TextValue(<<DQ>>)}
OptionalTexts == {NoValue, TextValue(<<>>), TextValue(<<LowerN>>), TextValue(<<BS>>)}
OptionalLists == {NoValue, ListValue(<<>>), ListValue(<< <<LowerN>> >>), ListValue(<< <<LowerN>>, <<DQ>> >>)}

\* what eval_elisp gives a typed operation: a decoded value, or its error
EvalOutcomes ==
    { Returned(TrueVal), Returned(ObjVal(<<>>)),
      EmacsClientError(TimedOutAfter \o Str(DefaultTimeout) \o SecondsWord) }

\* create_person: the expression goes to eval_elisp and its value comes back
CreatePerson ==
    /\ pc = "idle"
    /\ \E name \in RequiredTexts, context \in OptionalTexts, follow_ups \in OptionalLists, notes \in OptionalTexts :
        /\ op' = "create_person"
        /\ args' = <<name, context, follow_ups, notes>>
        /\ evaluated' = <<CreatePersonExpression(name, context, follow_ups, notes)>>
    /\ \E outcome \in EvalOutcomes :
        /\ result' = outcome
        /\ answer' = outcome
    /\ pc' = "done"
    /\ UNCHANGED <<server_file, now, timeout, exists, commands, sent, response>>

\* create_project: the expression goes to eval_elisp and its value comes back
CreateProject ==
    /\ pc = "idle"
    /\ \E title \in RequiredTexts, status \in OptionalTexts, next_action \in OptionalTexts, notes \in OptionalTexts :
        /\ op' = "create_project"
        /\ args' = <<title, status, next_action, notes>>
        /\ evaluated' = <<CreateProjectExpression(title, status, next_action, notes)>>
    /\ \E outcome \in EvalOutcomes :
        /\ result' = outcome
        /\ answer' = outcome
    /\ pc' = "done"
    /\ UNCHANGED <<server_file, now, timeout, exists, commands, sent, response>>

\* create_idea: the expression goes to eval_elisp and its value comes back
CreateIdea ==
    /\ pc = "idle"
    /\ \E title \in RequiredTexts, one_liner \in RequiredTexts, elaboration \in OptionalTexts :
        /\ op' = "create_idea"
        /\ args' = <<title, one_liner, elaboration>>
        /\ evaluated' = <<CreateIdeaExpression(title, one_liner, elaboration)>>
    /\ \E outcome \in EvalOutcomes :
        /\ result' = outcome
        /\ answer' = outcome
    /\ pc' = "done"
    /\ UNCHANGED <<server_file, now, timeout, exists, commands, sent, response>>

\* create_admin: the expression goes to eval_elisp and its value comes back
CreateAdmin ==
    /\ pc = "idle"
    /\ \E title \in RequiredTexts, due_date \in OptionalTexts, notes \in OptionalTexts :
        /\ op' = "create_admin"
        /\ args' = <<title, due_date, notes>>
        /\ evaluated' = <<CreateAdminExpression(title, due_date, notes)>>
    /\ \E outcome \in EvalOutcomes :
        /\ result' = outcome
        /\ answer' = outcome
    /\ pc' = "done"
    /\ UNCHANGED <<server_file, now, timeout, exists, commands, sent, response>>

\* add_inbox_entry: the expression goes to eval_elisp and its value comes back
AddInboxEntry ==
    /\ pc = "idle"
    /\ \E command \in RequiredTexts, original_text \in RequiredTexts, linked_note_id \in OptionalTexts, linked_note_title \in OptionalTexts :
        /\ op' = "add_inbox_entry"
        /\ args' = <<command, original_text, linked_note_id, linked_note_title>>
        /\ evaluated' = <<AddInboxEntryExpression(command, original_text, linked_note_id, linked_note_title)>>
    /\ \E outcome \in EvalOutcomes :
        /\ result' = outcome
        /\ answer' = outcome
    /\ pc' = "done"
    /\ UNCHANGED <<server_file, now, timeout, exists, commands, sent, response>>

\* read_note: the expression goes to eval_elisp and its value comes back
ReadNote ==
    /\ pc = "idle"
    /\ \E identifier \in RequiredTexts, section \in OptionalTexts :
        /\ op' = "read_note"
        /\ args' = <<identifier, section>>
        /\ evaluated' = <<ReadNoteExpression(identifier, section)>>
    /\ \E outcome \in EvalOutcomes :
        /\ result' = outcome
        /\ answer' = outcome
    /\ pc' = "done"
    /\ UNCHANGED <<server_file, now, timeout, exists, commands, sent, response>>


----------------------------------------------------------------------------
(* create_note and the video layout                                        *)

\* 'my/api-create-note'
ProcCreateNote == <<109, 121, 47, 97, 112, 105, 45, 99, 114, 101, 97, 116, 101, 45, 110, 111, 116, 101>>
\* 'video'
VideoWord == <<118, 105, 100, 101, 111>>
\* 'reference'
ReferenceWord == <<114, 101, 102, 101, 114, 101, 110, 99, 101>>
\* 'medium'
MediumWord == <<109, 101, 100, 105, 117, 109>>
\* '* Video Information\n- *URL:* '
VideoHeader == <<42, 32, 86, 105, 100, 101, 111, 32, 73, 110, 102, 111, 114, 109, 97, 116, 105, 111, 110, 10, 45, 32, 42, 85, 82, 76, 58, 42, 32>>
\* '\n- *Captured:* '
CapturedLabel == <<10, 45, 32, 42, 67, 97, 112, 116, 117, 114, 101, 100, 58, 42, 32>>
\* '\n- *Type:* YouTube Video\n'
VideoTypeLine == <<10, 45, 32, 42, 84, 121, 112, 101, 58, 42, 32, 89, 111, 117, 84, 117, 98, 101, 32, 86, 105, 100, 101, 111, 10>>
\* '- *'
MetaOpen == <<45, 32, 42>>
\* ':* '
MetaClose == <<58, 42, 32>>
\* '\n-----\n\n'
TranscriptOpen == <<10, 45, 45, 45, 45, 45, 10, 10>>
\* '\n\n-----\n/Note created from YouTube video transcript using org-roam-mcp/'
TranscriptClose == <<10, 10, 45, 45, 45, 45, 45, 10, 47, 78, 111, 116, 101, 32, 99, 114, 101, 97, 116, 101, 100, 32, 102, 114, 111, 109, 32, 89, 111, 117, 84, 117, 98, 101, 32, 118, 105, 100, 101, 111, 32, 116, 114, 97, 110, 115, 99, 114, 105, 112, 116, 32, 117, 115, 105, 110, 103, 32, 111, 114, 103, 45, 114, 111, 97, 109, 45, 109, 99, 112, 47>>
\* the day the modelled clock starts on, as strftime('%Y-%m-%d') writes it
EpochDate == <<50, 48, 50, 54, 45, 48, 49, 45, 48, 49>>

MinutesPerHour == 60

TwoDigits(n) == <<48 + (n \div 10), 48 + (n % 10)>>

\* current_time.strftime("%Y-%m-%d") within the first day of the clock
DateStr(clock) == EpochDate

\* current_time.strftime("%H:%M")
TimeStr(clock) ==
    TwoDigits(clock \div MinutesPerHour) \o <<COLON>> \o TwoDigits(clock % MinutesPerHour)

IsLower(c) == c >= 97 /\ c <= 122
IsUpper(c) == c >= 65 /\ c <= 90
IsCased(c) == IsLower(c) \/ IsUpper(c)

\* str.title(): a cased character after an uncased one (or at the start) is
\* made upper case, a cased character after a cased one lower case
TitleCase(key) ==
    [i \in 1..Len(key) |->
        IF ~IsCased(key[i]) THEN key[i]
        ELSE IF i > 1 /\ IsCased(key[i - 1])
             THEN (IF IsUpper(key[i]) THEN key[i] + 32 ELSE key[i])
             ELSE (IF IsLower(key[i]) THEN key[i] - 32 ELSE key[i])]

RECURSIVE MetadataLines(_)
\* one line per entry with a non-empty value, in the mapping's order
MetadataLines(pairs) ==
    IF pairs = <<>> THEN <<>>
    ELSE (IF pairs[1][2] # <<>>
          THEN MetaOpen \o TitleCase(pairs[1][1]) \o MetaClose \o pairs[1][2] \o <<NL>>
          ELSE <<>>) \o MetadataLines(Tail(pairs))

\* _format_video_content: the layout carries the date and minute of the call
FormatVideoContent(transcript, url, pairs, clock) ==
    VideoHeader \o url \o CapturedLabel \o DateStr(clock) \o <<SP>> \o TimeStr(clock)
        \o VideoTypeLine \o MetadataLines(pairs)
        \o TranscriptOpen \o transcript \o TranscriptClose

DictValue(pairs) == <<"dict", pairs>>

\* metadata or {}
MetadataOrEmpty(metadata) == IF metadata[1] = "none" THEN <<>> ELSE metadata[2]

\* the content create_note passes on: the video layout for a video note
\* with a url, the caller's content otherwise
NoteContent(content, note_type, url, metadata, clock) ==
    IF note_type[2] = VideoWord /\ Truthy(url)
    THEN FormatVideoContent(content[2], url[2], MetadataOrEmpty(metadata), clock)
    ELSE content[2]

CreateNoteExpression(title, content, note_type, confidence, url, metadata, clock) ==
    CallForm(ProcCreateNote,
        << QuotedText(title),
           Quoted(EscapeForElisp(NoteContent(content, note_type, url, metadata, clock))),
           QuotedText(note_type), QuotedText(confidence) >>)

NoteTypes == {TextValue(ReferenceWord), TextValue(VideoWord)}
Confidences == {TextValue(MediumWord)}
Urls == {NoValue, TextValue(<<>>), TextValue(<<LowerU>>)}
\* 'ch'
ChKey == <<99, 104>>
Metadatas ==
    {NoValue, DictValue(<<>>), DictValue(<< <<ChKey, <<LowerN>>>> >>),
     DictValue(<< <<ChKey, <<>>>> >>)}

\* create_note: the expression goes to eval_elisp and its value comes back
CreateNote ==
    /\ pc = "idle"
    /\ \E title \in RequiredTexts, content \in RequiredTexts, note_type \in NoteTypes,
          confidence \in Confidences, url \in Urls, metadata \in Metadatas :
        /\ op' = "create_note"
        /\ args' = <<title, content, note_type, confidence, url, metadata>>
        /\ evaluated' = <<CreateNoteExpression(title, content, note_type, confidence,
                                               url, metadata, now)>>
    /\ \E outcome \in EvalOutcomes :
        /\ result' = outcome
        /\ answer' = outcome
    /\ pc' = "done"
    /\ UNCHANGED <<server_file, now, timeout, exists, commands, sent, response>>

\* contextual_search: the expression goes to eval_elisp and its value comes
\* back
ContextualSearchCall ==
    /\ pc = "idle"
    /\ \E query \in ArgTexts, limit \in Limits :
        /\ op' = "contextual_search"
        /\ args' = <<query, limit>>
        /\ evaluated' = <<ContextualSearchExpression(query, limit)>>
    /\ \E outcome \in EvalOutcomes :
        /\ result' = outcome
        /\ answer' = outcome
    /\ pc' = "done"
    /\ UNCHANGED <<server_file, now, timeout, exists, commands, sent, response>>


\* a minute passes
Tick ==
    /\ now < MaxNow
    /\ now' = now + 1
    /\ UNCHANGED <<server_file, evaluated, answer, timeout, pc, op, args, exists, commands, sent, response, result>>

\* the caller takes the value and the client is ready for the next call
Finish ==
    /\ pc = "done"
    /\ pc' = "idle"
    /\ op' = "none"
    /\ args' = <<>>
    /\ evaluated' = <<>>
    /\ result' = NoValue
    /\ answer' = NoValue
    /\ UNCHANGED <<server_file, now, timeout, exists, commands, sent, response>>

InitExpr ==
    /\ server_file = ServerFile
    /\ timeout = DefaultTimeout
    /\ now = 0
    /\ evaluated = <<>>
    /\ answer = NoValue
    /\ pc = "idle"
    /\ op = "none"
    /\ args = <<>>
    /\ exists = FALSE
    /\ commands = <<>>
    /\ sent = NoValue
    /\ response = <<>>
    /\ result = NoValue

NextExpr ==
    \/ EscapeForElispCall
    \/ BuildElispListCall
    \/ CreatePerson
    \/ CreateProject
    \/ CreateIdea
    \/ CreateAdmin
    \/ AddInboxEntry
    \/ ReadNote
    \/ CreateNote
    \/ ContextualSearchCall
    \/ Tick
    \/ Finish

SpecExpr == InitExpr /\ [][NextExpr]_vars

\* what one character becomes in an escaped text
EscapedChar(c) ==
    CASE c = BS -> <<BS, BS>>
      [] c = DQ -> <<BS, DQ>>
      [] c = NL -> <<BS, LowerN>>
      [] c = TAB -> <<BS, LowerT>>
      [] OTHER -> <<c>>

RECURSIVE EscapedCharwise(_)
\* every character of the text escaped once, on its own
EscapedCharwise(text) ==
    IF text = <<>> THEN <<>> ELSE EscapedChar(Head(text)) \o EscapedCharwise(Tail(text))

\* C12: _escape_for_elisp returns the text (a value that is not a text is
\* made one first) with every backslash doubled, every double quote, newline
\* and tab written as its two-character escape, every other character kept,
\* and nothing that a replacement wrote escaped a second time.
C12_EscapeIsCharwise ==
    (pc = "done" /\ op = "_escape_for_elisp") =>
        answer = Returned(EscapedCharwise(StrOf(args[1])))

\* C12 witness: a text of a backslash, a double quote and a newline has been
\* escaped to six characters, each original character behind one backslash.
C12_Witness ==
    /\ pc = "done"
    /\ op = "_escape_for_elisp"
    /\ args = << TextValue(<<BS, DQ, NL>>) >>
    /\ answer = Returned(<<BS, BS, BS, DQ, BS, LowerN>>)

\* C13: _build_elisp_list returns '(list ', the items each escaped and
\* wrapped in double quotes, in input order with one space between them, and
\* ')'; the empty list gives '(list )'.
C13_ListLiteral ==
    (pc = "done" /\ op = "_build_elisp_list") =>
        LET items == args[1]
            body == answer[2]
            inner == SubSeq(body, 7, Len(body) - 1)
            quoted == [i \in 1..Len(items) |-> Quoted(EscapedCharwise(items[i]))]
        IN  /\ answer[1] = "ok"
            /\ Len(body) >= 7
            /\ SubSeq(body, 1, 6) = <<LPAR>> \o ListWord \o <<SP>>
            /\ body[Len(body)] = RPAR
            /\ inner = Join(<<SP>>, quoted)
            /\ items = <<>> => body = <<LPAR>> \o ListWord \o <<SP, RPAR>>

\* C13 witness: a list of two items, the second a double quote, has been
\* rendered, and the empty list is covered by the inputs as well.
C13_Witness ==
    /\ pc = "done"
    /\ op = "_build_elisp_list"
    /\ args = << << <<LowerN>>, <<DQ>> >> >>
    /\ answer = Returned(<<LPAR>> \o ListWord \o <<SP, DQ, LowerN, DQ, SP, DQ, BS, DQ, DQ, RPAR>>)

OptionalArgumentOps ==
    {"create_person", "create_project", "create_idea", "create_admin",
     "add_inbox_entry", "read_note"}

ProcOf(o) ==
    CASE o = "create_person" -> ProcCreatePerson
      [] o = "create_project" -> ProcCreateProject
      [] o = "create_idea" -> ProcCreateIdea
      [] o = "create_admin" -> ProcCreateAdmin
      [] o = "add_inbox_entry" -> ProcAddInboxEntry
      [] o = "read_note" -> ProcReadNote

\* the form one argument position is meant to hold
PositionForm(value) ==
    CASE ~Truthy(value) -> AtomForm(NilWord)
      [] Truthy(value) /\ value[1] = "text" -> StrForm(value[2])
      [] OTHER -> StrListForm(value[2])

\* C14 (as claimed): the expression of a typed operation with optional
\* arguments reads as the procedure followed by one form per argument of the
\* operation, in order: nil for an absent or empty optional argument, the
\* string or list literal for a present one; no position is left out.
C14_EveryPositionFilled ==
    (pc = "done" /\ op \in OptionalArgumentOps) =>
        /\ ElReadAll(evaluated[1]).ok
        /\ ElReadAll(evaluated[1]).val =
              ListForm(<<AtomForm(ProcOf(op))>> \o [i \in 1..Len(args) |-> PositionForm(args[i])])

\* C15: contextual_search hands eval_elisp one expression, the procedure
\* with the query as an escaped string literal and the limit as a bare
\* number; create_note called with title, content, type and confidence hands
\* it one expression, the procedure with the four texts as escaped string
\* literals in that order; each returns (or raises) what eval_elisp gave.
C15_OneCallFixedOrder ==
    /\ (pc = "done" /\ op = "contextual_search") =>
          /\ evaluated = << <<LPAR>> \o ProcContextualSearch \o <<SP>>
                              \o Quoted(EscapedCharwise(args[1])) \o <<SP>>
                              \o IntStr(args[2]) \o <<RPAR>> >>
          /\ answer = result
    /\ (pc = "done" /\ op = "create_note" /\ args[5] = NoValue) =>
          /\ evaluated = << <<LPAR>> \o ProcCreateNote \o <<SP>>
                              \o Quoted(EscapedCharwise(args[1][2])) \o <<SP>>
                              \o Quoted(EscapedCharwise(args[2][2])) \o <<SP>>
                              \o Quoted(EscapedCharwise(args[3][2])) \o <<SP>>
                              \o Quoted(EscapedCharwise(args[4][2])) \o <<RPAR>> >>
          /\ answer = result

\* C15 witness: create_note without a url has handed over its expression
\* for a title that is a double quote, and eval_elisp's value has come back.
C15_Witness ==
    /\ pc = "done"
    /\ op = "create_note"
    /\ args[1] = TextValue(<<DQ>>)
    /\ args[5] = NoValue
    /\ Len(evaluated) = 1
    /\ answer = Returned(TrueVal)
    /\ result = Returned(TrueVal)

\* the expression operation o builds from arguments a when the clock reads
\* clock
ExpressionOf(o, a, clock) ==
    CASE o = "contextual_search" -> ContextualSearchExpression(a[1], a[2])
      [] o = "create_note" -> CreateNoteExpression(a[1], a[2], a[3], a[4], a[5], a[6], clock)
      [] o = "create_person" -> CreatePersonExpression(a[1], a[2], a[3], a[4])
      [] o = "create_project" -> CreateProjectExpression(a[1], a[2], a[3], a[4])
      [] o = "create_idea" -> CreateIdeaExpression(a[1], a[2], a[3])
      [] o = "create_admin" -> CreateAdminExpression(a[1], a[2], a[3])
      [] o = "add_inbox_entry" -> AddInboxEntryExpression(a[1], a[2], a[3], a[4])
      [] o = "read_note" -> ReadNoteExpression(a[1], a[2])

TypedOps == OptionalArgumentOps \cup {"contextual_search", "create_note"}

\* C16 (as claimed): the expression a typed operation has built is the one
\* the same operation builds from the same arguments at any other minute:
\* it depends on the operation and its arguments alone.
C16_ExpressionIsPure ==
    (pc = "done" /\ op \in TypedOps) =>
        \A clock \in 0..MaxNow : evaluated[1] = ExpressionOf(op, args, clock)

----------------------------------------------------------------------------
(* Claims on the process invoker and the surfaced errors                   *)

\* C17 (as claimed): when the process of a direct _execute_command call has
\* exited by itself with a nonzero status, the invoker has not failed: the
\* caller holds the captured output.
C17_InvokerReturnsOnNonzeroExit ==
    (pc = "done" /\ op = "_execute_command" /\ sent[1] = "exit" /\ sent[2].returncode # 0)
        => result = Returned(StrVal(Strip(sent[2].stdout)))

FailureKinds == {"launch", "timeout", "exit", "decode"}

\* the kind of failure behind a raised EmacsClientError, from how the
\* process ended
FailureKind(ended) ==
    CASE ended[1] = "oserror" -> "launch"
      [] ended[1] = "timeout" -> "timeout"
      [] ended[1] = "exit" /\ ended[2].returncode # 0 -> "exit"
      [] OTHER -> "decode"

\* the words each kind's message is started with where it is raised
KindPrefix(kind) ==
    CASE kind = "launch" -> FailedToExecute
      [] kind = "timeout" -> TimedOutAfter
      [] kind = "exit" -> FailedWithCode
      [] kind = "decode" -> FailedToParse

\* C18 (as claimed): the message of a surfaced EmacsClientError starts with
\* the prefix of its own failure kind and with the prefix of no other kind.
C18_KindsHaveOwnPrefix ==
    (pc = "done" /\ result[1] = "raise" /\ result[2].kind = "EmacsClientError") =>
        /\ StartsWith(result[2].message, 1, KindPrefix(FailureKind(sent)))
        /\ \A kind \in FailureKinds \ {FailureKind(sent)} :
              ~StartsWith(result[2].message, 1, KindPrefix(kind))

----------------------------------------------------------------------------
(* Overlapping eval_elisp calls on one client.  Each caller runs its own   *)
(* call: pc, args, commands, sent and result are functions of the caller   *)
(* here, the locals of its call; exists is whether the server file is      *)
(* there now, and server_file and timeout are the client's own.  A call is *)
(* split where it blocks, in subprocess.run.                               *)

Callers == {1, 2}

\* every call would keep its locals in the one place of the first caller
OwnFrame_Shared(c) == 1
\* the place a call keeps its locals (safe_expression, command, response):
\* its own frame
OwnFrame(c) == c

\* eval_elisp after _execute_command: its text goes to the decoder, its
\* error to the caller
EvalElispAfter(outcome) ==
    IF outcome[1] = "ok" THEN ParseJsonResponseOf(outcome[2][2]) ELSE outcome

\* what eval_elisp returns or raises, given how its process ended
EvalElispOutcome(ended, configured) ==
    EvalElispAfter(ExecuteCommandOutcome(ended, configured))

\* how the process of an overlapping call can end
OverlapEnds(configured) ==
    { Ended("exit", 0, <<123, 34, 97, 34, 58, 34, 48, 34, 125, 10>>, <<>>, configured),
      Ended("exit", 0, <<32, 91, 49>>, <<>>, configured),
      Ended("exit", 1, <<>>, <<98, 111, 111, 109>>, configured),
      Ended("timeout", 0 - 9, <<>>, <<>>, configured) }
        \cup {Ended("oserror", 0, <<>>, text, configured) : text \in LaunchErrors}

\* the server file is created or removed by someone else
ServerFileChanges ==
    /\ exists' = ~exists
    /\ UNCHANGED <<server_file, now, evaluated, answer, timeout, pc, op, args, commands, sent, response, result>>

\* eval_elisp up to subprocess.run: the expression is escaped, the server
\* file looked for, the command built and its process started
OverlapCall(c) ==
    /\ pc[c] = "idle"
    /\ \E expression \in ExecExpressions :
        /\ args' = [args EXCEPT ![OwnFrame(c)] = <<expression>>]
        /\ commands' = [commands EXCEPT ![OwnFrame(c)] = <<EvalElispCommand(exists, expression)>>]
    /\ pc' = [pc EXCEPT ![c] = "running"]
    /\ UNCHANGED <<server_file, now, evaluated, answer, timeout, exists, op, sent, response, result>>

\* the process of caller c ends, or could not be started
OverlapProcessEnds(c) ==
    /\ pc[c] = "running"
    /\ \E ended \in OverlapEnds(RunTimeout(timeout)) :
        sent' = [sent EXCEPT ![OwnFrame(c)] = ended]
    /\ pc' = [pc EXCEPT ![c] = "ran"]
    /\ UNCHANGED <<server_file, now, evaluated, answer, timeout, exists, op, args, commands, response, result>>

\* subprocess.run has returned or raised: the rest of _execute_command and
\* _parse_json_response
OverlapReturns(c) ==
    /\ pc[c] = "ran"
    /\ result' = [result EXCEPT ![OwnFrame(c)] = EvalElispOutcome(sent[OwnFrame(c)], timeout)]
    /\ pc' = [pc EXCEPT ![c] = "done"]
    /\ UNCHANGED <<server_file, now, evaluated, answer, timeout, exists, op, args, commands, sent, response>>

\* the caller takes the outcome; it may call again
OverlapFinish(c) ==
    /\ pc[c] = "done"
    /\ pc' = [pc EXCEPT ![c] = "idle"]
    /\ args' = [args EXCEPT ![c] = <<>>]
    /\ commands' = [commands EXCEPT ![c] = <<>>]
    /\ sent' = [sent EXCEPT ![c] = NoValue]
    /\ result' = [result EXCEPT ![c] = NoValue]
    /\ UNCHANGED <<server_file, now, evaluated, answer, timeout, exists, op, response>>

InitOverlap ==
    /\ server_file = ServerFile
    /\ timeout = DefaultTimeout
    /\ now = 0
    /\ evaluated = <<>>
    /\ answer = NoValue
    /\ op = "eval_elisp"
    /\ exists \in BOOLEAN
    /\ pc = [c \in Callers |-> "idle"]
    /\ args = [c \in Callers |-> <<>>]
    /\ commands = [c \in Callers |-> <<>>]
    /\ sent = [c \in Callers |-> NoValue]
    /\ response = <<>>
    /\ result = [c \in Callers |-> NoValue]

NextOverlap ==
    \/ ServerFileChanges
    \/ \E c \in Callers : OverlapCall(c)
    \/ \E c \in Callers : OverlapProcessEnds(c)
    \/ \E c \in Callers : OverlapReturns(c)
    \/ \E c \in Callers : OverlapFinish(c)

SpecOverlap == InitOverlap /\ [][NextOverlap]_vars

\* the command line carries the flag --server-file=<server_file>
HasServerFlag(cmd) ==
    \E i \in 1..Len(ShParse(cmd).argv) : ShParse(cmd).argv[i] = ServerFlag \o server_file

\* the command line is emacsclient -e <one argument>
IsFlagless(cmd) ==
    /\ Len(ShParse(cmd).argv) = 3
    /\ ShParse(cmd).argv[1] = EmacsclientWord
    /\ ShParse(cmd).argv[2] = EFlag

\* C19: in every step in which an eval_elisp call builds its command, the
\* command carries --server-file=<server_file> exactly when the server file
\* exists at that moment, whatever it was at earlier calls; when the file is
\* absent the command is the flag-less emacsclient -e <expression> and the
\* call goes on to run it.
C19_FlagIffExists ==
    [][\A c \in Callers :
          (pc[c] = "idle" /\ pc'[c] = "running") =>
              /\ Len(commands'[c]) = 1
              /\ ShParse(commands'[c][1]).ok
              /\ HasServerFlag(commands'[c][1]) <=> exists
              /\ ~exists => IsFlagless(commands'[c][1])]_vars

\* C19 witness: the first caller's call was built without the flag and has
\* returned a decoded value, while the second caller's call, built after the
\* file appeared, carries the flag.
C19_Witness ==
    /\ pc[1] = "done"
    /\ result[1][1] = "ok"
    /\ IsFlagless(commands[1][1])
    /\ pc[2] = "running"
    /\ HasServerFlag(commands[2][1])

\* C20: server_file and timeout stay what the constructor made them through
\* every call, returned or failed, and for overlapping calls each caller's
\* command is built from its own expression and each caller's outcome is
\* what eval_elisp makes of the end of its own process.
C20_CallsAreIndependent ==
    /\ server_file = ServerFile
    /\ timeout = DefaultTimeout
    /\ \A c \in Callers :
          /\ pc[c] # "idle" =>
                /\ Len(args[c]) = 1
                /\ \E e \in BOOLEAN : commands[c] = <<EvalElispCommand(e, args[c][1])>>
          /\ pc[c] \in {"ran", "done"} => sent[c] \in OverlapEnds(DefaultTimeout)
          /\ pc[c] = "done" => result[c] = EvalElispOutcome(sent[c], DefaultTimeout)
          /\ pc[c] \in {"idle", "running", "ran"} => result[c] = NoValue

\* C20 witness: both calls are finished, started from different expressions,
\* one returned a decoded value and the other failed on its timeout.
C20_Witness ==
    /\ pc[1] = "done"
    /\ pc[2] = "done"
    /\ args[1] # args[2]
    /\ result[1][1] = "ok"
    /\ sent[2][1] = "timeout"
    /\ result[2][1] = "raise"

----------------------------------------------------------------------------
(* The two scanning passes on their own: _pre_clean_response and the loop  *)
(* of _parse_json_with_control_char_fix applied to a text.  sent names the *)
(* family the text is drawn from and response holds the text.              *)

\* longest text of the scanned family
MaxScanLen == 3

ScanChars == {DQ, BS, NL, LowerN, LowerU, Zero}
\* '\u0000', '\u00' and a newline, '\u' and a newline and '000',
\* '"\\"' and a newline, '"a\' and a newline and '"'
ScanExtras ==
    { <<BS, LowerU, Zero, Zero, Zero, Zero>>,
      <<BS, LowerU, Zero, Zero, NL>>,
      <<BS, LowerU, NL, Zero, Zero, Zero>>,
      <<DQ, BS, BS, DQ, NL>>,
      <<DQ, LowerA, BS, NL, DQ>> }
ScanTexts == TextsOver(ScanChars, MaxScanLen) \cup ScanExtras

\* the texts a JSON encoder writes for the modelled values
ValidJsonTexts == {Encode(v, ws, "strict") : v \in Values, ws \in Layouts}

\* the loop of _parse_json_with_control_char_fix, without the json.loads
SweepText(json_str) == SweepScan(json_str, 1, <<>>)

\* _pre_clean_response(response)
PreClean ==
    /\ pc = "text"
    /\ result' = PreCleanResponse(response)
    /\ pc' = "cleaned"
    /\ UNCHANGED <<server_file, now, evaluated, answer, timeout, op, args, exists, commands, sent, response>>

\* _pre_clean_response applied to its own result
PreCleanAgain ==
    /\ pc = "cleaned"
    /\ answer' = PreCleanResponse(result)
    /\ pc' = "recleaned"
    /\ UNCHANGED <<server_file, now, evaluated, timeout, op, args, exists, commands, sent, response, result>>

\* the escaping loop of _parse_json_with_control_char_fix
Sweep ==
    /\ pc = "text"
    /\ result' = SweepText(response)
    /\ pc' = "swept"
    /\ UNCHANGED <<server_file, now, evaluated, answer, timeout, op, args, exists, commands, sent, response>>

InitClean ==
    /\ server_file = ServerFile
    /\ timeout = DefaultTimeout
    /\ now = 0
    /\ evaluated = <<>>
    /\ answer = NoValue
    /\ pc = "text"
    /\ op = "none"
    /\ args = <<>>
    /\ exists = FALSE
    /\ commands = <<>>
    /\ \/ sent = "json" /\ response \in ValidJsonTexts
       \/ sent = "scan" /\ response \in ScanTexts
    /\ result = NoValue

NextClean ==
    \/ PreClean
    \/ PreCleanAgain
    \/ Sweep

SpecClean == InitClean /\ [][NextClean]_vars

\* C21: for a valid JSON text, _pre_clean_response applied to its own
\* result gives that result again.
C21_PreCleanIdempotent ==
    (pc = "recleaned" /\ sent = "json") => answer = result

\* C21 witness: a valid JSON text that the pass changes (a DEL inside a
\* string becomes its escape) has gone through the pass twice, and the
\* second pass changed nothing.
C21_Witness ==
    /\ pc = "recleaned"
    /\ sent = "json"
    /\ result # response
    /\ answer = result

\* the number of consecutive backslashes that end just before index j
BackslashRun(text, j) ==
    j - 1 - (CHOOSE k \in 0..(j - 1) :
                /\ k = 0 \/ text[k] # BS
                /\ \A m \in (k + 1)..(j - 1) : text[m] = BS)

\* the quote at index j is not escaped
Unescaped(text, j) == BackslashRun(text, j) % 2 = 0

\* index j lies inside a string: an odd number of unescaped quotes precede it
InsideString(text, j) ==
    Cardinality({k \in 1..(j - 1) : text[k] = DQ /\ Unescaped(text, k)}) % 2 = 1

\* the pre-clean pass with the quotes told apart by the backslashes before
\* them
UnitPreClean(text) ==
    Concat([j \in 1..Len(text) |->
              IF text[j] # DQ /\ InsideString(text, j)
              THEN PreCleanChar(text[j]) ELSE <<text[j]>>])

RECURSIVE UnitSweep(_)
\* the sweep with an escape sequence being a backslash and one of the simple
\* escape characters, or a backslash, u and four hex digits
UnitSweep(text) ==
    IF text = <<>> THEN <<>>
    ELSE IF text[1] = BS /\ Len(text) >= 2 /\ text[2] \in SimpleEscapes
         THEN <<BS, text[2]>> \o UnitSweep(SubSeq(text, 3, Len(text)))
    ELSE IF /\ text[1] = BS /\ Len(text) >= 6 /\ text[2] = LowerU
            /\ \A k \in 3..6 : text[k] \in HexDigits
         THEN SubSeq(text, 1, 6) \o UnitSweep(SubSeq(text, 7, Len(text)))
    ELSE SweepChar(text[1]) \o UnitSweep(Tail(text))

\* C25 (as claimed): the pre-clean pass treats a quote as a string boundary
\* exactly when an even number of backslashes precede it, and escapes the
\* control characters inside the strings so bounded; the sweep copies a
\* backslash with a simple escape character, or with u and four hex digits,
\* as one unit and escapes every control character that is not part of such
\* a unit.
C25_EscapesAreUnits ==
    /\ pc = "cleaned" => result = UnitPreClean(response)
    /\ pc = "swept" => result = UnitSweep(response)

----------------------------------------------------------------------------
(* The operations that hand their own command lines to _execute_command    *)
(* and make their answer from what it returns or raises.  sent holds how   *)
(* the processes of the call ended, commands the command lines, result the *)
(* outcomes of _execute_command, all in the order of the calls.            *)

\* 'today'
TodayWord == <<116, 111, 100, 97, 121>>
\* the two characters backslash and n
BackslashN == <<BS, LowerN>>

RECURSIVE ReplaceWord(_, _, _)
\* s.replace(word, r) for a non-empty word: occurrences are taken from the
\* left and do not overlap
ReplaceWord(s, word, r) ==
    IF ~Contains(s, word) THEN s
    ELSE LET i == CHOOSE k \in 1..(Len(s) - Len(word) + 1) :
                    /\ SubSeq(s, k, k + Len(word) - 1) = word
                    /\ \A m \in 1..(k - 1) : SubSeq(s, m, m + Len(word) - 1) # word
         IN  SubSeq(s, 1, i - 1) \o r
                \o ReplaceWord(SubSeq(s, i + Len(word), Len(s)), word, r)

\* s.strip('"')
StripQuotes(s) ==
    LET keep == {k \in 1..Len(s) : s[k] # DQ}
    IN  IF keep = {} THEN <<>>
        ELSE SubSeq(s, CHOOSE k \in keep : \A m \in keep : k <= m,
                       CHOOSE k \in keep : \A m \in keep : m <= k)

\* lines 540-543: what add_daily_entry makes of _execute_command's outcome
AddDailyEntryResult(outcome) ==
    IF outcome[1] = "ok"
    THEN Returned([success |-> TRUE, message |-> StripQuotes(Strip(outcome[2][2]))])
    ELSE Returned([success |-> FALSE, error |-> outcome[2].message])

\* lines 570-571: the first and last character go when both are quotes
WithoutQuotes(content) ==
    IF content # <<>> /\ content[1] = DQ /\ content[Len(content)] = DQ
    THEN SubSeq(content, 2, Len(content) - 1) ELSE content

\* the replacement without the strip that follows it
CleanedContent_NoStrip(resp) == ReplaceWord(resp, BackslashN, <<NL>>)
\* line 569: the replacement, then the strip
CleanedContent(resp) == Strip(ReplaceWord(resp, BackslashN, <<NL>>))

\* date or "today"
DateOrToday(date) == IF date # <<>> THEN date ELSE TodayWord

\* lines 559-584: what get_daily_content makes of _execute_command's outcome
GetDailyContentResult(outcome, date) ==
    IF outcome[1] = "ok"
    THEN Returned([success |-> TRUE, content |-> WithoutQuotes(CleanedContent(outcome[2][2])),
                   date |-> DateOrToday(date)])
    ELSE Returned([success |-> FALSE, error |-> outcome[2].message, content |-> <<>>,
                   date |-> DateOrToday(date)])

\* what the processes of these operations print
DirectStdouts ==
    { <<>>,
      <<34, 65, 100, 100, 101, 100, 34, 10>>,   \* '"Added"' and a newline
      <<110, 105, 108, 10>>,   \* 'nil' and a newline
      <<34, 97, 92, 110, 98, 34>>,   \* '"a\nb"', the backslash and the n as two characters
      <<97, 92, 110>>,   \* 'a\n', the same without quotes
      <<DQ>>,
      <<53>>,   \* '5'
      <<34, 50, 32, 112, 114, 111, 99, 101, 115, 115, 101, 100, 44, 32, 49, 32, 115, 107, 105, 112, 112, 101, 100, 34>>,   \* '"2 processed, 1 skipped"'
      <<34, 100, 111, 110, 101, 34>>,   \* '"done"'
      <<34, 45, 51, 34>>,   \* '"-3"'
      <<49, 95, 48>>,   \* '1_0'
      <<34, 120, 49, 32, 50, 32, 32, 112, 114, 111, 99, 101, 115, 115, 101, 100, 34>>,   \* '"x1 2  processed"', two spaces before the word
      <<34, 51, 112, 114, 111, 99, 101, 115, 115, 101, 100, 34>> }   \* '"3processed"'

\* how the process of such a call can end
DirectEnds(configured) ==
    {Ended("exit", 0, stdout, <<>>, configured) : stdout \in DirectStdouts}
        \cup { Ended("exit", 1, <<>>, <<110, 105, 108>>, configured),
               Ended("exit", 1, <<34, 120, 34>>, <<98, 111, 111, 109>>, configured),
               Ended("timeout", 0 - 9, <<>>, <<>>, configured) }
        \cup {Ended("oserror", 0, <<>>, text, configured) : text \in LaunchErrors}

\* the arguments of the direct calls: the texts of at most one character
\* and the lists of at most one item
DirectDates == {t \in ArgTexts : Len(t) <= 1}
DirectDailyInputs ==
    {a \in AddDailyInputs : \A k \in 1..5 : Len(a[k]) <= 1}

\* add_daily_entry: one command, its process, and the answer
AddDailyEntryCall ==
    /\ pc = "idle"
    /\ \E a \in DirectDailyInputs, entry_type \in EntryTypes, ex \in BOOLEAN,
          ended \in DirectEnds(RunTimeout(timeout)) :
        /\ op' = "add_daily_entry"
        /\ args' = Append(a, entry_type)
        /\ exists' = ex
        /\ commands' = <<CommandDQ(ex, ShellEscape(
               AddDailyEntryExpression(a[1], a[2], a[3], a[4], a[5], entry_type)))>>
        /\ sent' = <<ended>>
        /\ result' = <<ExecuteCommandOutcome(ended, timeout)>>
        /\ answer' = AddDailyEntryResult(ExecuteCommandOutcome(ended, timeout))
    /\ pc' = "done"
    /\ UNCHANGED <<server_file, now, evaluated, timeout, response>>

\* get_daily_content: one command, its process, and the answer
GetDailyContentCall ==
    /\ pc = "idle"
    /\ \E date \in DirectDates, ex \in BOOLEAN, ended \in DirectEnds(RunTimeout(timeout)) :
        /\ op' = "get_daily_content"
        /\ args' = <<date>>
        /\ exists' = ex
        /\ commands' = <<CommandDQ(ex, GetDailyContentExpression(date))>>
        /\ sent' = <<ended>>
        /\ result' = <<ExecuteCommandOutcome(ended, timeout)>>
        /\ answer' = GetDailyContentResult(ExecuteCommandOutcome(ended, timeout), date)
    /\ pc' = "done"
    /\ UNCHANGED <<server_file, now, evaluated, timeout, response>>

\* the caller takes the answer and the client is ready for the next call
DirectFinish ==
    /\ pc = "done"
    /\ pc' = "idle"
    /\ op' = "none"
    /\ args' = <<>>
    /\ exists' = FALSE
    /\ commands' = <<>>
    /\ sent' = <<>>
    /\ result' = <<>>
    /\ response' = <<>>
    /\ answer' = NoValue
    /\ UNCHANGED <<server_file, now, evaluated, timeout>>


\* 'successfully'
SuccessfullyWord == <<115, 117, 99, 99, 101, 115, 115, 102, 117, 108, 108, 121>>

\* the outcome is the failure the no-value reply is surfaced as
NilFailure(outcome) ==
    outcome[1] = "raise" /\ Contains(Lower(outcome[2].message), NilWord)

\* C22 (as claimed): add_daily_entry has handed eval_elisp one expression,
\* the procedure with the timestamp, the title, the three lists and the
\* entry type, and its answer is success True when the remote call returned
\* and when it failed with the no-value reply, then with a message holding
\* 'successfully'.
C22_DailyEntryThroughEvalElisp ==
    (pc = "done" /\ op = "add_daily_entry") =>
        /\ Len(evaluated) = 1
        /\ ElReadAll(evaluated[1]).val =
              ListForm(<<AtomForm(ProcAddDaily), StrForm(args[1]), StrForm(args[2]),
                         StrListForm(args[3]), StrListForm(args[4]), StrListForm(args[5]),
                         StrForm(args[6])>>)
        /\ result[1][1] = "ok" => answer[2].success
        /\ NilFailure(result[1]) =>
              /\ answer[2].success
              /\ Contains(answer[2].message, SuccessfullyWord)


\* the expression in the command line of a direct call
SentExpression(cmd) == ShParse(cmd).argv[Len(ShParse(cmd).argv)]

\* t without one pair of surrounding double quotes
WithoutPair(t) ==
    IF Len(t) >= 2 /\ t[1] = DQ /\ t[Len(t)] = DQ THEN SubSeq(t, 2, Len(t) - 1) ELSE t

\* the fields of get_daily_content's answer that do not depend on the reply's
\* content: it returns, success is whether the command succeeded, the date
\* is the given one or 'today', the expression has no argument when no date
\* was given, and a failure carries its text and an empty content
DailyContentFrame ==
    /\ answer[1] = "ok"
    /\ answer[2].success = (result[1][1] = "ok")
    /\ answer[2].date = (IF args[1] = <<>> THEN TodayWord ELSE args[1])
    /\ args[1] = <<>> => SentExpression(commands[1]) = <<LPAR>> \o ProcGetDaily \o <<RPAR>>
    /\ result[1][1] = "raise" =>
          /\ answer[2].error = result[1][2].message
          /\ answer[2].content = <<>>

\* C23 (as claimed): get_daily_content never raises; on success the content
\* is the reply with every backslash-n turned into a newline and one pair of
\* surrounding double quotes removed, the date the given one or 'today'; on
\* any failure success False, the error text, content '' and the same date.
C23_DailyContentAsClaimed ==
    (pc = "done" /\ op = "get_daily_content") =>
        /\ DailyContentFrame
        /\ result[1][1] = "ok" =>
              answer[2].content =
                  WithoutPair(ReplaceWord(result[1][2][2], BackslashN, <<NL>>))

\* C23 (amended): as above, but on success the content is the reply with
\* every backslash-n turned into a newline, then stripped of surrounding
\* whitespace (the newlines just made included), then without its first and
\* last character when both are double quotes, which leaves nothing of a
\* reply that is one double quote.
C23_DailyContentAnswer ==
    (pc = "done" /\ op = "get_daily_content") =>
        /\ DailyContentFrame
        /\ result[1][1] = "ok" =>
              LET replaced == ReplaceWord(result[1][2][2], BackslashN, <<NL>>)
                  stripped == Strip(replaced)
              IN  answer[2].content =
                      IF stripped # <<>> /\ Head(stripped) = DQ
                                         /\ stripped[Len(stripped)] = DQ
                      THEN SubSeq(stripped, 2, Len(stripped) - 1)
                      ELSE stripped

\* C23 witness: a call without a date whose reply was quoted and held a
\* backslash-n: the content has the newline and no quotes, the date is
\* 'today'.
C23_Witness ==
    /\ pc = "done"
    /\ op = "get_daily_content"
    /\ args[1] = <<>>
    /\ result[1][1] = "ok"
    /\ Contains(result[1][2][2], BackslashN)
    /\ Head(result[1][2][2]) = DQ
    /\ answer[2].success
    /\ answer[2].content = <<97, NL, 98>>
    /\ answer[2].date = TodayWord


----------------------------------------------------------------------------
(* generate_embeddings: the generation command, the count read from its    *)
(* reply, the save command.  The call is split where it blocks, in the two *)
(* subprocess.run calls.                                                   *)

PLUS == 43
UNDERSCORE == 95

\* '(org-roam-semantic-generate-all-embeddings t)'
GenerateAllForced == <<40, 111, 114, 103, 45, 114, 111, 97, 109, 45, 115, 101, 109, 97, 110, 116, 105, 99, 45, 103, 101, 110, 101, 114, 97, 116, 101, 45, 97, 108, 108, 45, 101, 109, 98, 101, 100, 100, 105, 110, 103, 115, 32, 116, 41>>
\* '(org-roam-semantic-generate-all-embeddings)'
GenerateAllStale == <<40, 111, 114, 103, 45, 114, 111, 97, 109, 45, 115, 101, 109, 97, 110, 116, 105, 99, 45, 103, 101, 110, 101, 114, 97, 116, 101, 45, 97, 108, 108, 45, 101, 109, 98, 101, 100, 100, 105, 110, 103, 115, 41>>
\* lines 601-604
GenerateAllExpression(force) == IF force THEN GenerateAllForced ELSE GenerateAllStale

\* what stands between the double quotes of save_cmd, lines 627 and 629:
\* (save-some-buffers t (lambda () (and (buffer-file-name)
\* (string-match-p \"\\.org\$\" (buffer-file-name)))))
SaveArgument == <<40, 115, 97, 118, 101, 45, 115, 111, 109, 101, 45, 98, 117, 102, 102, 101, 114, 115, 32, 116, 32, 40, 108, 97, 109, 98, 100, 97, 32, 40, 41, 32, 40, 97, 110, 100, 32, 40, 98, 117, 102, 102, 101, 114, 45, 102, 105, 108, 101, 45, 110, 97, 109, 101, 41, 32, 40, 115, 116, 114, 105, 110, 103, 45, 109, 97, 116, 99, 104, 45, 112, 32, 92, 34, 92, 92, 46, 111, 114, 103, 92, 36, 92, 34, 32, 40, 98, 117, 102, 102, 101, 114, 45, 102, 105, 108, 101, 45, 110, 97, 109, 101, 41, 41, 41, 41, 41>>
\* the expression Emacs is handed by it
SaveExpression == <<40, 115, 97, 118, 101, 45, 115, 111, 109, 101, 45, 98, 117, 102, 102, 101, 114, 115, 32, 116, 32, 40, 108, 97, 109, 98, 100, 97, 32, 40, 41, 32, 40, 97, 110, 100, 32, 40, 98, 117, 102, 102, 101, 114, 45, 102, 105, 108, 101, 45, 110, 97, 109, 101, 41, 32, 40, 115, 116, 114, 105, 110, 103, 45, 109, 97, 116, 99, 104, 45, 112, 32, 34, 92, 46, 111, 114, 103, 36, 34, 32, 40, 98, 117, 102, 102, 101, 114, 45, 102, 105, 108, 101, 45, 110, 97, 109, 101, 41, 41, 41, 41, 41>>
\* 'processed'
ProcessedWord == <<112, 114, 111, 99, 101, 115, 115, 101, 100>>
\* 'Generated '
GeneratedWord == <<71, 101, 110, 101, 114, 97, 116, 101, 100, 32>>
\* ' embeddings'
EmbeddingsWord == <<32, 101, 109, 98, 101, 100, 100, 105, 110, 103, 115>>

\* str(n) of any integer
PyStr(n) == IF n < 0 THEN <<MINUS>> \o IntStr(0 - n) ELSE IntStr(n)

\* t without its underscores
WithoutUnderscores(t) == SelectSeq(t, LAMBDA ch : ch # UNDERSCORE)

\* the digits part of an integer literal: digits, single underscores between
IsIntBody(t) ==
    /\ t # <<>>
    /\ \A k \in 1..Len(t) : t[k] \in Digits \cup {UNDERSCORE}
    /\ t[1] # UNDERSCORE
    /\ t[Len(t)] # UNDERSCORE
    /\ \A k \in 1..(Len(t) - 1) : ~(t[k] = UNDERSCORE /\ t[k + 1] = UNDERSCORE)

\* t without a leading sign
Unsigned(t) == IF t # <<>> /\ t[1] \in {PLUS, MINUS} THEN Tail(t) ELSE t

\* int(t) does not raise ValueError
IsPyInt(t) == IsIntBody(Unsigned(Strip(t)))

\* int(t)
PyInt(t) ==
    LET n == IntOf(WithoutUnderscores(Unsigned(Strip(t))))
    IN  IF Strip(t)[1] = MINUS THEN 0 - n ELSE n

\* a match of (\d+)\s+processed starts at i: the digits from i on, then
\* whitespace, then the word
ProcessedAt(s, i) ==
    /\ s[i] \in Digits
    /\ LET j == NextIn(s, i, Chars \ Digits)
           k == NextIn(s, j, Chars \ Whitespace)
       IN  /\ k > j
           /\ k + Len(ProcessedWord) - 1 <= Len(s)
           /\ SubSeq(s, k, k + Len(ProcessedWord) - 1) = ProcessedWord

\* re.search(r'(\d+)\s+processed', s): group 1 of the leftmost match, or
\* nothing
ProcessedDigits(s) ==
    LET starts == {i \in 1..Len(s) : ProcessedAt(s, i)}
    IN  IF starts = {} THEN <<>>
        ELSE LET i == CHOOSE k \in starts : \A m \in starts : k <= m
             IN  SubSeq(s, i, NextIn(s, i, Chars \ Digits) - 1)

\* lines 616-626: the count read from the reply
EmbeddingCount(resp) ==
    LET response_str == StripQuotes(Strip(resp))
    IN  IF IsPyInt(response_str) THEN PyInt(response_str)
        ELSE IF ProcessedDigits(response_str) # <<>>
             THEN IntOf(ProcessedDigits(response_str))
             ELSE 0


\* how the process of the save command can end
SaveEnds(configured) ==
    { Ended("exit", 0, <<110, 105, 108, 10>>, <<>>, configured),
      Ended("exit", 1, <<>>, <<98, 111, 111, 109>>, configured),
      Ended("timeout", 0 - 9, <<>>, <<>>, configured) }
        \cup {Ended("oserror", 0, <<>>, text, configured) : text \in LaunchErrors}

\* lines 646-651: the answer to a failed generation
GenerationFailed(outcome) ==
    Returned([success |-> FALSE, error |-> outcome[2].message, count |-> 0])

\* the answer if a failed save were let through to the outer handler
GenerateEmbeddingsAnswer_SaveFails(generated, saved) ==
    IF saved[1] = "raise" THEN GenerationFailed(saved)
    ELSE Returned([success |-> TRUE, count |-> EmbeddingCount(generated[2][2]),
                   message |-> GeneratedWord \o PyStr(EmbeddingCount(generated[2][2]))
                                  \o EmbeddingsWord])
\* lines 630-645: the answer after the save command, whose failure is only
\* logged
GenerateEmbeddingsAnswer(generated, saved) ==
    Returned([success |-> TRUE, count |-> EmbeddingCount(generated[2][2]),
              message |-> GeneratedWord \o PyStr(EmbeddingCount(generated[2][2]))
                             \o EmbeddingsWord])

\* generate_embeddings up to the first subprocess.run: the generation
\* command is built and its process started
GenerateEmbeddingsCall ==
    /\ pc = "idle"
    /\ \E force \in BOOLEAN, ex \in BOOLEAN :
        /\ args' = <<force>>
        /\ exists' = ex
        /\ commands' = <<CommandDQ(ex, GenerateAllExpression(force))>>
    /\ op' = "generate_embeddings"
    /\ pc' = "generating"
    /\ UNCHANGED <<server_file, now, evaluated, timeout, response, sent, result, answer>>

\* the generation process has ended: a failure is answered at once,
\* otherwise the save command is built and its process started
GenerationEnds ==
    /\ pc = "generating"
    /\ \E ended \in DirectEnds(RunTimeout(timeout)) :
        /\ sent' = <<ended>>
        /\ result' = <<ExecuteCommandOutcome(ended, timeout)>>
        /\ IF ExecuteCommandOutcome(ended, timeout)[1] = "raise"
           THEN /\ answer' = GenerationFailed(ExecuteCommandOutcome(ended, timeout))
                /\ pc' = "done"
                /\ UNCHANGED <<commands, exists>>
           ELSE /\ \E ex \in BOOLEAN :
                    /\ exists' = ex
                    /\ commands' = Append(commands, CommandDQ(ex, SaveArgument))
                /\ pc' = "saving"
                /\ UNCHANGED answer
    /\ UNCHANGED <<server_file, now, evaluated, timeout, response, op, args>>

\* the save process has ended: the answer is made
SaveBuffersEnds ==
    /\ pc = "saving"
    /\ \E ended \in SaveEnds(RunTimeout(timeout)) :
        /\ sent' = Append(sent, ended)
        /\ result' = Append(result, ExecuteCommandOutcome(ended, timeout))
        /\ answer' = GenerateEmbeddingsAnswer(result[1], ExecuteCommandOutcome(ended, timeout))
    /\ pc' = "done"
    /\ UNCHANGED <<server_file, now, evaluated, timeout, response, op, args, commands, exists>>


\* the command line hands Emacs this expression, with or without the flag
Hands(cmd, expression) ==
    /\ ShParse(cmd).ok
    /\ SentExpression(cmd) = expression

\* C26: in generate_embeddings the first command is the generation command
\* and a save command has been issued only when the generation command has
\* ended and succeeded: never while it runs and never after it failed; then
\* the answer is the failure with count 0.  Once the save command has ended,
\* however it ended, the answer is success True with the count read from the
\* generation reply: the integer reply, else the number before 'processed',
\* else 0.
C26_SaveOnlyAfterGeneration ==
    op = "generate_embeddings" =>
        /\ Len(commands) \in {1, 2}
        /\ Hands(commands[1], GenerateAllExpression(args[1]))
        /\ pc = "generating" => Len(commands) = 1 /\ result = <<>>
        /\ Len(commands) = 2 =>
              /\ Len(result) >= 1
              /\ result[1][1] = "ok"
              /\ Hands(commands[2], SaveExpression)
        /\ (pc = "done" /\ result[1][1] = "raise") =>
              /\ Len(commands) = 1
              /\ answer = Returned([success |-> FALSE, error |-> result[1][2].message,
                                    count |-> 0])
        /\ (pc = "done" /\ result[1][1] = "ok") =>
              /\ Len(commands) = 2
              /\ Len(result) = 2
              /\ answer[1] = "ok"
              /\ answer[2].success
              /\ LET reply == StripQuotes(result[1][2][2])
                 IN  answer[2].count =
                        IF IsPyInt(reply) THEN PyInt(reply)
                        ELSE IF \E i \in 1..Len(reply) : ProcessedAt(reply, i)
                             THEN IntOf(ProcessedDigits(reply))
                             ELSE 0

\* C26 witness: the generation replied with a sentence, the save command was
\* issued after it and failed, and the answer is success True with the
\* number before 'processed'.
C26_Witness ==
    /\ op = "generate_embeddings"
    /\ pc = "done"
    /\ result[1] = Returned(StrVal(<<34, 50, 32, 112, 114, 111, 99, 101, 115, 115, 101, 100, 44, 32, 49, 32, 115, 107, 105, 112, 112, 101, 100, 34>>))
    /\ Len(commands) = 2
    /\ result[2][1] = "raise"
    /\ answer[2].success
    /\ answer[2].count = 2


----------------------------------------------------------------------------
(* Construction of the client: __init__ resolves the server file and sets  *)
(* the timeout, then _load_emacs_packages checks the required packages,    *)
(* one emacsclient process each.  The construction is split where it       *)
(* blocks, in subprocess.run.  args is the server_file argument and the    *)
(* value of EMACS_SERVER_FILE, an empty text for an absent one.            *)

\* lines 59-63: packages_to_check
PackagesToCheck ==
    << <<111, 114, 103, 45, 114, 111, 97, 109, 45, 118, 101, 99, 116, 111, 114, 45, 115, 101, 97, 114, 99, 104>>,
       <<111, 114, 103, 45, 114, 111, 97, 109, 45, 115, 101, 99, 111, 110, 100, 45, 98, 114, 97, 105, 110>>,
       <<111, 114, 103, 45, 114, 111, 97, 109, 45, 97, 112, 105>> >>

\* '(featurep (quote '
FeaturepOpen == <<40, 102, 101, 97, 116, 117, 114, 101, 112, 32, 40, 113, 117, 111, 116, 101, 32>>
\* line 89: check_expr
CheckExpr(package_name) == FeaturepOpen \o package_name \o <<RPAR, RPAR>>

\* the home directory of the modelled user: '/h'
HomeDir == <<47, 104>>
\* line 34: os.path.expanduser("~/.emacs.d/server/server")
DefaultServerFile == HomeDir \o <<47, 46, 101, 109, 97, 99, 115, 46, 100, 47, 115, 101, 114, 118, 101, 114, 47, 115, 101, 114, 118, 101, 114>>

\* the server_file arguments and environment values of the modelled
\* constructions
ServerFileArguments == {<<>>, ServerFile, <<47, 116>>}
EnvServerFiles == {<<>>, <<47, 101>>}

\* lines 26-35: the server file of the client
ResolvedServerFile(given, env) ==
    IF given # <<>> THEN given
    ELSE IF env # <<>> THEN env ELSE DefaultServerFile

\* how the process of a package check can end
CheckEnds(configured) ==
    { Ended("exit", 0, <<116, 10>>, <<>>, configured),
      Ended("exit", 0, <<110, 105, 108, 10>>, <<>>, configured),
      Ended("exit", 1, <<>>, <<98, 111, 111, 109>>, configured),
      Ended("timeout", 0 - 9, <<>>, <<>>, configured) }
        \cup {Ended("oserror", 0, <<>>, text, configured) : text \in LaunchErrors}

\* a check that took any reply for a loaded package
IsPackageAvailable_AnyReply(outcome) == outcome[1] = "ok"
\* lines 94-98: the package is loaded when the command returned and its
\* reply is t
IsPackageAvailable(outcome) ==
    outcome[1] = "ok" /\ Strip(outcome[2][2]) = <<116>>

\* the packages whose check failed, in the order of the checks
MissingPackages(outcomes) ==
    LET missing(k) == IF IsPackageAvailable(outcomes[k]) THEN <<>> ELSE <<PackagesToCheck[k]>>
    IN  missing(1) \o missing(2) \o missing(3)

\* repr of a list of plain words
ListRepr(words) ==
    <<91>> \o Join(<<44, SP>>, [k \in 1..Len(words) |-> <<SQ>> \o words[k] \o <<SQ>>]) \o <<93>>

\* 'Required Emacs packages not loaded: '
NotLoadedPrefix == <<82, 101, 113, 117, 105, 114, 101, 100, 32, 69, 109, 97, 99, 115, 32, 112, 97, 99, 107, 97, 103, 101, 115, 32, 110, 111, 116, 32, 108, 111, 97, 100, 101, 100, 58, 32>>

\* lines 73-79: what the constructor makes of the three checks
LoadPackagesOutcome(outcomes) ==
    IF MissingPackages(outcomes) # <<>>
    THEN <<"raise", [kind |-> "RuntimeError",
                     message |-> NotLoadedPrefix \o ListRepr(MissingPackages(outcomes))]>>
    ELSE Returned("client")

\* __init__ up to _load_emacs_packages: lines 26-48
Construct ==
    /\ pc = "new"
    /\ \E given \in ServerFileArguments, env \in EnvServerFiles :
        /\ args' = <<given, env>>
        /\ server_file' = ResolvedServerFile(given, env)
    /\ timeout' = DefaultTimeout
    /\ op' = "__init__"
    /\ pc' = "loading"
    /\ UNCHANGED <<now, evaluated, answer, exists, commands, sent, response, result>>

\* _is_package_available up to subprocess.run: the command of the next
\* check is built and its process started
PackageCheck ==
    /\ pc = "loading"
    /\ \E ex \in BOOLEAN :
        /\ exists' = ex
        /\ commands' = Append(commands,
               CommandSQ(ex, CheckExpr(PackagesToCheck[Len(commands) + 1])))
    /\ pc' = "checking"
    /\ UNCHANGED <<server_file, now, evaluated, answer, timeout, op, args, sent, response, result>>

\* the process of the check has ended; after the last check the
\* construction completes or raises
PackageCheckEnds ==
    /\ pc = "checking"
    /\ \E ended \in CheckEnds(RunTimeout(timeout)) :
        /\ sent' = Append(sent, ended)
        /\ result' = Append(result, ExecuteCommandOutcome(ended, timeout))
        /\ IF Len(result) + 1 < Len(PackagesToCheck)
           THEN /\ pc' = "loading"
                /\ UNCHANGED answer
           ELSE /\ answer' = LoadPackagesOutcome(
                                 Append(result, ExecuteCommandOutcome(ended, timeout)))
                /\ pc' = "constructed"
    /\ UNCHANGED <<server_file, now, evaluated, timeout, op, args, exists, commands, response>>

InitConstruct ==
    /\ server_file = NoValue
    /\ timeout = NoValue
    /\ now = 0
    /\ evaluated = <<>>
    /\ answer = NoValue
    /\ pc = "new"
    /\ op = "none"
    /\ args = <<>>
    /\ exists = FALSE
    /\ commands = <<>>
    /\ sent = <<>>
    /\ response = <<>>
    /\ result = <<>>

NextConstruct ==
    \/ Construct
    \/ PackageCheck
    \/ PackageCheckEnds

SpecConstruct == InitConstruct /\ [][NextConstruct]_vars

\* the seconds the client's timeout is claimed to be
ClaimedTimeout == 30

\* C24 (as claimed): a client constructed with an explicit server file path
\* has server_file equal to that path and timeout equal to 30 seconds.
C24_ExplicitPathAndTimeout ==
    (pc = "constructed" /\ answer[1] = "ok" /\ args[1] # <<>>) =>
        /\ server_file = args[1]
        /\ timeout = ClaimedTimeout

\* the reply of check k was t
RepliedT(k) == result[k][1] = "ok" /\ result[k][2][2] = <<116>>

\* C27: when the constructor has ended it has run three checks, one command
\* each, asking featurep of org-roam-vector-search, org-roam-second-brain
\* and org-roam-api in this order; it has completed exactly when every check
\* replied t and has raised otherwise, whether or not the server file
\* existed at any check.
C27_ConstructionChecksPackages ==
    (op = "__init__" /\ pc = "constructed") =>
        /\ Len(commands) = 3
        /\ Len(sent) = 3
        /\ \A k \in 1..3 :
              /\ ShParse(commands[k]).ok
              /\ SentExpression(commands[k]) = CheckExpr(PackagesToCheck[k])
        /\ answer[1] \in {"ok", "raise"}
        /\ answer[1] = "ok" <=> \A k \in 1..3 : RepliedT(k)

\* C27 witness: the first and the last check replied t, the second replied
\* nil with the server file in place, and the construction raised.
C27_Witness ==
    /\ op = "__init__"
    /\ pc = "constructed"
    /\ RepliedT(1)
    /\ result[2] = Returned(StrVal(<<110, 105, 108>>))
    /\ HasServerFlag(commands[2])
    /\ RepliedT(3)
    /\ answer[1] = "raise"


----------------------------------------------------------------------------
(* change_task_state                                                       *)

\* 'my/org-roam-change-task-state'
ProcChangeTaskState == <<109, 121, 47, 111, 114, 103, 45, 114, 111, 97, 109, 45, 99, 104, 97, 110, 103, 101, 45, 116, 97, 115, 107, 45, 115, 116, 97, 116, 101>>

\* line 994: elisp
ChangeTaskStateExpression(file, heading, new_state) ==
    CallForm(ProcChangeTaskState,
             <<Quoted(EscapeForElisp(file)), Quoted(EscapeForElisp(heading)),
               Quoted(EscapeForElisp(new_state))>>)

\* the states of a task in the modelled calls: 'TODO', 'DONE'
TaskStates == {<<84, 79, 68, 79>>, <<68, 79, 78, 69>>}

\* "'EmacsClient' object has no attribute '_execute_elisp'"
NoExecuteElisp == <<39, 69, 109, 97, 99, 115, 67, 108, 105, 101, 110, 116, 39, 32, 111, 98, 106, 101, 99, 116, 32, 104, 97, 115, 32, 110, 111, 32, 97, 116, 116, 114, 105, 98, 117, 116, 101, 32, 39, 95, 101, 120, 101, 99, 117, 116, 101, 95, 101, 108, 105, 115, 112, 39>>

\* line 995: self._execute_elisp is looked up on a class that defines no
\* such method
ExecuteElispLookup == <<"raise", [kind |-> "AttributeError", message |-> NoExecuteElisp]>>

\* lines 997-999: what change_task_state makes of the outcome of line 995
ChangeTaskStateResult(outcome) ==
    CASE outcome[1] = "ok" -> Returned([success |-> TRUE, message |-> outcome[2]])
      [] outcome[1] = "raise" /\ outcome[2].kind = "EmacsClientError" ->
            Returned([success |-> FALSE, error |-> outcome[2].message])
      [] OTHER -> outcome

\* change_task_state: the arguments are escaped and the expression built,
\* then the lookup of line 995 fails before any command is issued
ChangeTaskState ==
    /\ pc = "idle"
    /\ \E file \in DirectDates, heading \in DirectDates, new_state \in TaskStates :
        /\ args' = <<file, heading, new_state>>
        /\ response' = ChangeTaskStateExpression(file, heading, new_state)
    /\ op' = "change_task_state"
    /\ commands' = <<>>
    /\ sent' = <<>>
    /\ result' = <<ExecuteElispLookup>>
    /\ answer' = ChangeTaskStateResult(ExecuteElispLookup)
    /\ pc' = "done"
    /\ UNCHANGED <<server_file, now, evaluated, timeout, exists>>

\* C28 (as claimed): change_task_state has had one expression evaluated,
\* (my/org-roam-change-task-state "<file>" "<heading>" "<new_state>") with
\* the three arguments escaped, by one command, and it returns success True
\* with the reply or success False with the error text; it never raises.
C28_ChangeTaskStateAnswers ==
    (pc = "done" /\ op = "change_task_state") =>
        /\ answer[1] = "ok"
        /\ Len(commands) = 1
        /\ Hands(commands[1], ChangeTaskStateExpression(args[1], args[2], args[3]))
        /\ result[1][1] = "ok" => answer[2] = [success |-> TRUE, message |-> result[1][2]]
        /\ result[1][1] = "raise" =>
              answer[2] = [success |-> FALSE, error |-> result[1][2].message]


----------------------------------------------------------------------------
(* _deduplicate_notes of the server.  A note is a dict; of its keys the    *)
(* function reads 'file', 'id', 'similarity_score' and 'relevance_score'.  *)
(* A field of a modelled note is <<>> when the dict has no such key and    *)
(* <<v>> when it has it with value v; title stands for the rest of the     *)
(* dict and tells notes with equal keys and scores apart.                  *)

MaxNotes == 3

Note(file, id, similarity_score, relevance_score, title) ==
    [file |-> file, id |-> id, similarity_score |-> similarity_score,
     relevance_score |-> relevance_score, title |-> title]

\* the notes of the modelled lists
NoteSet ==
    { Note(<<"a">>, <<>>, <<1>>, <<>>, "p"),
      Note(<<"a">>, <<>>, <<2>>, <<>>, "p"),
      Note(<<"a">>, <<>>, <<1>>, <<>>, "q"),
      Note(<<>>, <<"a">>, <<>>, <<2>>, "p"),
      Note(<<"b">>, <<"a">>, <<>>, <<1>>, "p"),
      Note(<<>>, <<>>, <<>>, <<>>, "p"),
      Note(<<>>, <<>>, <<>>, <<>>, "q"),
      Note(<<"b">>, <<>>, <<0>>, <<2>>, "q"),
      Note(<<>>, <<"b">>, <<2>>, <<>>, "q") }

NoteLists == UNION {[1..n -> NoteSet] : n \in 0..MaxNotes}

\* line 1249: note.get('file', note.get('id', ''))
FilePath(note) ==
    IF Len(note.file) = 1 THEN note.file[1]
    ELSE IF Len(note.id) = 1 THEN note.id[1] ELSE ""

\* line 1250: note.get('similarity_score', note.get('relevance_score', 0))
Score(note) ==
    IF Len(note.similarity_score) = 1 THEN note.similarity_score[1]
    ELSE IF Len(note.relevance_score) = 1 THEN note.relevance_score[1] ELSE 0

\* a comparison that lets an equal score replace the kept note
Replaces_OnTie(score, kept) == score >= Score(kept)
\* line 1251: score > the score of the note kept for the file
Replaces(score, kept) == score > Score(kept)

\* the place of a key in the dict seen_files, 0 when it is not in it
PlaceOf(seen_files, key) ==
    IF \E k \in 1..Len(seen_files) : seen_files[k][1] = key
    THEN CHOOSE k \in 1..Len(seen_files) : seen_files[k][1] = key
    ELSE 0

\* lines 1248-1252: one turn of the loop; a new key goes to the end of the
\* dict, a kept key keeps its place
SeenAfter(seen_files, note) ==
    LET at == PlaceOf(seen_files, FilePath(note))
    IN  IF at = 0 THEN Append(seen_files, <<FilePath(note), note>>)
        ELSE IF Replaces(Score(note), seen_files[at][2])
             THEN [seen_files EXCEPT ![at] = <<FilePath(note), note>>]
             ELSE seen_files

RECURSIVE SeenFiles(_)
\* seen_files after the loop over notes
SeenFiles(notes) ==
    IF notes = <<>> THEN <<>>
    ELSE SeenAfter(SeenFiles(SubSeq(notes, 1, Len(notes) - 1)), notes[Len(notes)])

\* line 1253: list(seen_files.values())
DeduplicateNotesOf(notes) ==
    [k \in 1..Len(SeenFiles(notes)) |-> SeenFiles(notes)[k][2]]

\* _deduplicate_notes(notes)
DeduplicateNotes ==
    /\ pc = "idle"
    /\ result' = DeduplicateNotesOf(args[1])
    /\ pc' = "done"
    /\ op' = "_deduplicate_notes"
    /\ UNCHANGED <<server_file, now, evaluated, answer, timeout, args, exists, commands, sent, response>>

InitDedup ==
    /\ server_file = ServerFile
    /\ timeout = DefaultTimeout
    /\ now = 0
    /\ evaluated = <<>>
    /\ answer = NoValue
    /\ pc = "idle"
    /\ op = "none"
    /\ \E notes \in NoteLists : args = <<notes>>
    /\ exists = FALSE
    /\ commands = <<>>
    /\ sent = <<>>
    /\ response = <<>>
    /\ result = <<>>

NextDedup == DeduplicateNotes

SpecDedup == InitDedup /\ [][NextDedup]_vars

\* the first place of the key in the list
FirstPlace(notes, key) ==
    CHOOSE j \in 1..Len(notes) :
        /\ FilePath(notes[j]) = key
        /\ \A m \in 1..(j - 1) : FilePath(notes[m]) # key

\* the earliest note of the list with this key whose score no note with the
\* key exceeds
BestOf(notes, key) ==
    notes[CHOOSE j \in 1..Len(notes) :
              /\ FilePath(notes[j]) = key
              /\ \A m \in 1..Len(notes) :
                    FilePath(notes[m]) = key => Score(notes[m]) <= Score(notes[j])
              /\ \A m \in 1..(j - 1) :
                    FilePath(notes[m]) = key => Score(notes[m]) < Score(notes[j])]

\* C30: _deduplicate_notes returns one note per distinct file key of the
\* input (file, else id, else ''): the earliest input note with that key
\* whose score (similarity_score, else relevance_score, else 0) is the
\* maximum for the key; the keys come in the order of their first
\* occurrence, and every returned note is a note of the input.
C30_OneBestNotePerFile ==
    pc = "done" =>
        LET notes == args[1]
            keys == {FilePath(notes[j]) : j \in 1..Len(notes)}
        IN  /\ Len(result) = Cardinality(keys)
            /\ {FilePath(result[i]) : i \in 1..Len(result)} = keys
            /\ \A i \in 1..Len(result) :
                  /\ \E j \in 1..Len(notes) : notes[j] = result[i]
                  /\ result[i] = BestOf(notes, FilePath(result[i]))
            /\ \A i, k \in 1..Len(result) :
                  i < k => FirstPlace(notes, FilePath(result[i]))
                              < FirstPlace(notes, FilePath(result[k]))

\* C30 witness: three notes of one key, given by file, by id and by file
\* again; the second and the third share the highest score, the one as
\* relevance_score and the other as similarity_score: the second is kept.
C30_Witness ==
    /\ pc = "done"
    /\ args[1] = << Note(<<"a">>, <<>>, <<1>>, <<>>, "q"),
                    Note(<<>>, <<"a">>, <<>>, <<2>>, "p"),
                    Note(<<"a">>, <<>>, <<2>>, <<>>, "p") >>
    /\ result = << Note(<<>>, <<"a">>, <<>>, <<2>>, "p") >>


----------------------------------------------------------------------------
(* The two dispatchers of the server: call_tool of the MCP server object   *)
(* and handle_mcp_request of the HTTP endpoint.  Every branch of both      *)
(* calls the method of emacs_client that has the name of its tool, so a    *)
(* branch is its tool name.  op is the dispatcher, args the method, the    *)
(* tool name and the id of the request, answer the response.               *)

\* the "name" entries of TOOL_SCHEMAS, in its order
ToolSchemas ==
    << "contextual_search", "search_notes", "read_note", "semantic_search",
       "create_note", "add_daily_entry", "get_daily_content", "sync_database",
       "generate_embeddings", "generate_note_embedding", "add_inbox_entry",
       "create_person", "create_project", "create_idea", "create_admin",
       "get_active_projects", "get_pending_followups", "get_stale_projects",
       "get_weekly_inbox", "get_digest_data", "log_to_inbox",
       "get_dangling_followups", "change_task_state", "update_note", "list_notes" >>

\* the tool names of the if/elif chain of call_tool, in its order
CallToolBranches ==
    << "contextual_search", "search_notes", "read_note", "update_note", "list_notes",
       "semantic_search", "create_note", "add_daily_entry", "get_daily_content",
       "sync_database", "generate_embeddings", "change_task_state",
       "generate_note_embedding", "add_inbox_entry", "create_person",
       "create_project", "create_idea", "create_admin", "get_active_projects",
       "get_pending_followups", "get_stale_projects", "get_weekly_inbox",
       "get_digest_data", "log_to_inbox", "get_dangling_followups" >>

\* the tool names of the if/elif chain of handle_mcp_request, in its order
HttpBranches ==
    << "search_notes", "contextual_search", "read_note", "update_note", "list_notes",
       "semantic_search", "create_note", "add_daily_entry", "get_daily_content",
       "generate_embeddings", "generate_note_embedding", "add_inbox_entry",
       "create_person", "create_project", "create_idea", "create_admin",
       "get_active_projects", "get_pending_followups", "get_stale_projects",
       "get_weekly_inbox", "get_digest_data", "log_to_inbox",
       "get_dangling_followups", "update_note", "list_notes" >>

\* the public methods class EmacsClient defines
ClientOperations ==
    { "eval_elisp", "contextual_search", "search_notes", "semantic_search",
      "create_note", "add_daily_entry", "get_daily_content", "generate_embeddings",
      "generate_note_embedding", "add_inbox_entry", "sync_database",
      "create_person", "create_project", "create_idea", "create_admin",
      "get_active_projects", "get_pending_followups", "get_stale_projects",
      "get_weekly_inbox", "get_digest_data", "log_to_inbox",
      "get_dangling_followups", "change_task_state", "read_note" }

Advertised == {ToolSchemas[k] : k \in 1..Len(ToolSchemas)}

\* the names a request can ask for: the advertised ones, a method of the
\* client that is not advertised, a name nobody knows and an empty one
RequestedNames == Advertised \cup {"eval_elisp", "no_such_tool", ""}

\* the methods of a JSON-RPC request
RpcMethods == {"tools/list", "tools/call", "initialize", "notifications/initialized", "ping"}

\* the ids of a request: none, 1, 2
RpcIds == {<<>>, <<1>>, <<2>>}

\* the branch of the chain taken for the name: the first with that name
HasBranch(branches, tool_name) == \E k \in 1..Len(branches) : branches[k] = tool_name

\* emacs_client.<operation>(...): the lookup fails for a method the class
\* does not define, and change_task_state fails within (line 995 of
\* emacs_client.py); any other operation gives its result
ClientCall(operation) ==
    IF operation \notin ClientOperations
    THEN <<"raise", [kind |-> "AttributeError", message |-> <<>>]>>
    ELSE IF operation = "change_task_state" THEN ChangeTaskStateResult(ExecuteElispLookup)
    ELSE Returned(operation)

\* lines 572-1138: the response of call_tool
CallToolResponse(tool_name) ==
    IF ~HasBranch(CallToolBranches, tool_name)
    THEN [kind |-> "unknown_tool", id |-> <<>>]
    ELSE IF ClientCall(tool_name)[1] = "raise"
         THEN [kind |-> "unexpected_error", id |-> <<>>]
         ELSE [kind |-> "result", id |-> <<>>]

\* lines 1361-1961: the response of handle_mcp_request
HttpResponse(method, tool_name, id) ==
    CASE method = "tools/list" -> [kind |-> "tools", id |-> id]
      [] method = "tools/call" ->
            (IF ~HasBranch(HttpBranches, tool_name)
             THEN [kind |-> "unknown_tool", id |-> id]
             ELSE IF ClientCall(tool_name)[1] = "raise"
                  THEN [kind |-> "internal_error", id |-> id]
                  ELSE [kind |-> "result", id |-> id])
      [] method = "initialize" -> [kind |-> "initialized", id |-> id]
      [] method = "notifications/initialized" -> [kind |-> "empty", id |-> <<>>]
      [] OTHER -> [kind |-> "unknown_method", id |-> id]

\* call_tool(name, arguments)
CallTool ==
    /\ pc = "idle"
    /\ \E tool_name \in RequestedNames :
        /\ args' = <<"tools/call", tool_name, <<>>>>
        /\ answer' = CallToolResponse(tool_name)
    /\ op' = "call_tool"
    /\ pc' = "done"
    /\ UNCHANGED <<server_file, now, evaluated, timeout, exists, commands, sent, response, result>>

\* handle_mcp_request(request)
HandleMcpRequest ==
    /\ pc = "idle"
    /\ \E method \in RpcMethods, tool_name \in RequestedNames, id \in RpcIds :
        /\ args' = <<method, IF method = "tools/call" THEN tool_name ELSE "", id>>
        /\ answer' = HttpResponse(method, tool_name, id)
    /\ op' = "handle_mcp_request"
    /\ pc' = "done"
    /\ UNCHANGED <<server_file, now, evaluated, timeout, exists, commands, sent, response, result>>

\* the response is sent and the server waits for the next request
ServeNext ==
    /\ pc = "done"
    /\ pc' = "idle"
    /\ op' = "none"
    /\ args' = <<>>
    /\ answer' = NoValue
    /\ UNCHANGED <<server_file, now, evaluated, timeout, exists, commands, sent, response, result>>

InitServe ==
    /\ server_file = ServerFile
    /\ timeout = DefaultTimeout
    /\ now = 0
    /\ evaluated = <<>>
    /\ answer = NoValue
    /\ pc = "idle"
    /\ op = "none"
    /\ args = <<>>
    /\ exists = FALSE
    /\ commands = <<>>
    /\ sent = <<>>
    /\ response = <<>>
    /\ result = <<>>

NextServe ==
    \/ CallTool
    \/ HandleMcpRequest
    \/ ServeNext

SpecServe == InitServe /\ [][NextServe]_vars

\* C29 (as claimed): a tools/call request for a name advertised in
\* TOOL_SCHEMAS, to call_tool or to the HTTP handler, is dispatched to an
\* operation defined on EmacsClient and answered with its result: never with
\* 'Unknown tool' and never with the failure of a missing operation.
C29_AdvertisedToolsAreServed ==
    (pc = "done" /\ args[1] = "tools/call" /\ args[2] \in Advertised) =>
        /\ args[2] \in ClientOperations
        /\ answer.kind = "result"

InitDirect ==
    /\ server_file = ServerFile
    /\ timeout = DefaultTimeout
    /\ now = 0
    /\ evaluated = <<>>
    /\ answer = NoValue
    /\ pc = "idle"
    /\ op = "none"
    /\ args = <<>>
    /\ exists = FALSE
    /\ commands = <<>>
    /\ sent = <<>>
    /\ response = <<>>
    /\ result = <<>>

NextDirect ==
    \/ AddDailyEntryCall
    \/ GetDailyContentCall
    \/ GenerateEmbeddingsCall
    \/ GenerationEnds
    \/ SaveBuffersEnds
    \/ ChangeTaskState
    \/ DirectFinish

SpecDirect == InitDirect /\ [][NextDirect]_vars

====
